---- MODULE Spec2Model ----
(***************************************************************************)
(* claude-orchestrator: the task queue, the four mailboxes, the 4-agent    *)
(* pipeline (processTaskV2) and the cycle loop of startCommand.            *)
(*                                                                         *)
(* Persisted files are variables (queue.json, the four message files,      *)
(* status.json); the in-memory state of startCommand and of one            *)
(* processTaskV2 call are the records sched and run.  External agents      *)
(* (the claude CLI child processes) are the environment: an agent exits    *)
(* with some outcome and leaves something in its output mailbox.           *)
(***************************************************************************)
EXTENDS Naturals, Integers, Sequences, FiniteSets, TLC

VARIABLES
    queue,            \* queue.json: [tasks, completed, current]
    mail,             \* the four message files, by MessageTarget
    status,           \* status.json
    config,           \* config.json: maxTasks and continuous
    sched,            \* startCommand: position, cycle counter, batch, counters
    run,              \* processTaskV2: position and locals of the run in flight
    activeProcesses,  \* the process registry: ids of live child processes
    hist              \* history of the run in flight (what was invoked, what failed)

vars == <<queue, mail, status, config, sched, run, activeProcesses, hist>>

(***************************************************************************)
(* Bounds of the model.                                                    *)
(***************************************************************************)
MaxTasks  == 2   \* tasks the discovery agent creates over a whole behaviour
MaxCycles == 2   \* cycles of one startCommand
MaxBatch  == 2   \* largest config.maxTasks tried
MaxTokens == 2   \* expected design tokens in a verification

(***************************************************************************)
(* Values.                                                                 *)
(***************************************************************************)
NoTask   == 0            \* queue.current = null
NoReason == "undefined"  \* a task without rejectionReason

TaskIds == 1..MaxTasks

MessageTargets == {"toDesigner", "toTechLead", "toDeveloper", "toTeamLead"}

BuildStatuses == {"success", "failed", "not_verified"}

NoMsg == [type |-> "none", taskId |-> NoTask, build |-> "na", fresh |-> FALSE]

Msg(type, id, build) == [type |-> type, taskId |-> id, build |-> build, fresh |-> TRUE]

\* createDefaultMessageFile / the file clearMessages writes
EmptyMessageFile == [valid |-> TRUE, messages |-> <<>>]

\* a message file that readJSON cannot parse
CorruptMessageFile == [valid |-> FALSE, messages |-> <<>>]

createDefaultQueue == [tasks |-> <<>>, completed |-> <<>>, current |-> NoTask]

createDefaultStatus ==
    [running |-> FALSE, planner |-> "idle", designer |-> "idle",
     techLead |-> "idle", developer |-> "idle", developerTask |-> NoTask,
     lastCycle |-> [number |-> 0, completed |-> 0, failed |-> 0, remaining |-> 0]]

(***************************************************************************)
(* Sequence helpers.                                                       *)
(***************************************************************************)
RECURSIVE SelectSeqBy(_, _)
SelectSeqBy(s, status_) ==
    IF s = <<>> THEN <<>>
    ELSE IF Head(s).status = status_
         THEN <<Head(s)>> \o SelectSeqBy(Tail(s), status_)
         ELSE SelectSeqBy(Tail(s), status_)

\* variant: nothing is cut off
Slice_Whole(s, n) == s

\* Array.prototype.slice(0, n); a negative n counts from the end
Slice(s, n) ==
    IF n < 0 THEN SubSeq(s, 1, IF Len(s) + n > 0 THEN Len(s) + n ELSE 0)
    ELSE IF Len(s) <= n THEN s ELSE SubSeq(s, 1, n)

RemoveAt(s, i) == SubSeq(s, 1, i - 1) \o SubSeq(s, i + 1, Len(s))

Ids(s) == [i \in 1..Len(s) |-> s[i].id]

Range(s) == {s[i] : i \in 1..Len(s)}

(***************************************************************************)
(* queue.ts                                                                *)
(***************************************************************************)
\* tasks.findIndex((t) => t.id === taskId); 0 stands for -1
findIndex(q, taskId) ==
    LET hits == {i \in 1..Len(q.tasks) : q.tasks[i].id = taskId}
    IN IF hits = {} THEN 0 ELSE CHOOSE i \in hits : \A j \in hits : i <= j

\* A task id 'task-NNN' is written as the number its digits spell.
\* String(newNum): the decimal digits of a number
RECURSIVE digitsOf(_)
digitsOf(n) == IF n < 10 THEN <<n>> ELSE digitsOf(n \div 10) \o <<n % 10>>

\* String.prototype.padStart: pads on the left, never shortens
padStart(s, targetLength, pad) ==
    IF Len(s) >= targetLength THEN s
    ELSE [i \in 1..(targetLength - Len(s)) |-> pad] \o s

\* the digits of `task-${String(newNum).padStart(3, '0')}`
formatTaskId(newNum) == padStart(digitsOf(newNum), 3, 0)

\* parseInt(match[1], 10) on the digits matched by /^task-(\d+)$/
RECURSIVE parseInt10(_)
parseInt10(d) ==
    IF d = <<>> THEN 0 ELSE parseInt10(SubSeq(d, 1, Len(d) - 1)) * 10 + d[Len(d)]

\* the number generateTaskId reads back from the id written for n
taskNumber(n) == parseInt10(formatTaskId(n))

\* variant: only the active list is scanned for the highest number
generateTaskId_ActiveOnly(q) ==
    LET all == {taskNumber(q.tasks[i].id) : i \in 1..Len(q.tasks)}
        maxNum == IF all = {} THEN 0 ELSE CHOOSE n \in all : \A m \in all : m <= n
    IN taskNumber(maxNum + 1)

\* highest numeric suffix over tasks and completed, plus one
generateTaskId(q) ==
    LET all == {taskNumber(q.tasks[i].id) : i \in 1..Len(q.tasks)}
                 \cup {taskNumber(q.completed[i].id) : i \in 1..Len(q.completed)}
        maxNum == IF all = {} THEN 0 ELSE CHOOSE n \in all : \A m \in all : m <= n
    IN taskNumber(maxNum + 1)

\* updateTask when the task is found: { ...task, ...updates }
updateTask(q, taskId, updates) ==
    LET i == findIndex(q, taskId)
        old == q.tasks[i]
        new == [f \in DOMAIN old |-> IF f \in DOMAIN updates THEN updates[f] ELSE old[f]]
    IN [q EXCEPT !.tasks[i] = new]

\* updateTask throws 'Task not found' exactly when findIndex is -1
Throws(q, taskId) == findIndex(q, taskId) = 0

updateTaskStatus(q, taskId, status_) == updateTask(q, taskId, [status |-> status_])

setCurrentTask(q, taskId) == [q EXCEPT !.current = taskId]

\* variant: the task is pushed to completed but not spliced out of tasks
completeTask_KeepsActive(q, taskId) ==
    LET i == findIndex(q, taskId)
        task == [q.tasks[i] EXCEPT !.status = "completed"]
    IN [tasks |-> q.tasks,
        completed |-> Append(q.completed, task),
        current |-> IF q.current = taskId THEN NoTask ELSE q.current]

completeTask(q, taskId) ==
    LET i == findIndex(q, taskId)
        task == [q.tasks[i] EXCEPT !.status = "completed"]
    IN [tasks |-> RemoveAt(q.tasks, i),
        completed |-> Append(q.completed, task),
        current |-> IF q.current = taskId THEN NoTask ELSE q.current]

rejectTask(q, taskId, reason) ==
    updateTask(q, taskId, [status |-> "rejected", rejectionReason |-> reason])

resetTask(q, taskId) ==
    updateTask(q, taskId, [status |-> "pending", rejectionReason |-> NoReason])

getPendingTasks(q) == SelectSeqBy(q.tasks, "pending")

getInProgressTasks(q) == SelectSeqBy(q.tasks, "in_progress")

\* the task with this id, in the active list or in the completed list
RECURSIVE Lookup(_, _)
Lookup(s, taskId) ==
    IF s = <<>> THEN [id |-> NoTask, status |-> "absent", rejectionReason |-> NoReason]
    ELSE IF Head(s).id = taskId THEN Head(s) ELSE Lookup(Tail(s), taskId)

getTask(q, taskId) ==
    IF findIndex(q, taskId) # 0 THEN q.tasks[findIndex(q, taskId)]
    ELSE Lookup(q.completed, taskId)

InActive(q, taskId) == findIndex(q, taskId) # 0

InCompleted(q, taskId) == \E i \in 1..Len(q.completed) : q.completed[i].id = taskId

(***************************************************************************)
(* Message files (agent.ts)                                                *)
(***************************************************************************)
\* variant: the file is left as it is
clearMessages_Keeps(m, target) == m

clearMessages(m, target) == [m EXCEPT ![target] = EmptyMessageFile]

\* readMessages throws when the file does not parse
readThrows(m, target) == ~m[target].valid

\* variant: the first message of the type, whatever task it names
RECURSIVE find_AnyTask(_, _, _)
find_AnyTask(msgs, type, taskId) ==
    IF msgs = <<>> THEN NoMsg
    ELSE IF Head(msgs).type = type THEN Head(msgs)
    ELSE find_AnyTask(Tail(msgs), type, taskId)

\* messages.find((m) => m.type === type && m.taskId === taskId)
RECURSIVE find(_, _, _)
find(msgs, type, taskId) ==
    IF msgs = <<>> THEN NoMsg
    ELSE IF Head(msgs).type = type /\ Head(msgs).taskId = taskId THEN Head(msgs)
    ELSE find(Tail(msgs), type, taskId)

\* every message already in a file was written before the run that starts now
MarkStale(m) ==
    [t \in MessageTargets |->
        [m[t] EXCEPT !.messages =
            [i \in 1..Len(m[t].messages) |-> [m[t].messages[i] EXCEPT !.fresh = FALSE]]]]

(***************************************************************************)
(* Agents: the ids given to runClaudeAgent, the file each one is told to   *)
(* write, and the message type the pipeline looks for in it.               *)
(***************************************************************************)
Producers == {"planner", "designer", "tech-lead", "developer"}

PhaseOrder == <<"planner", "designer", "tech-lead", "developer", "review">>

OutBox(agent) ==
    CASE agent = "planner"   -> "toDesigner"
      [] agent = "designer"  -> "toTechLead"
      [] agent = "tech-lead" -> "toDeveloper"
      [] agent = "developer" -> "toTeamLead"

KindOf(agent) ==
    CASE agent = "planner"   -> "planning_document"
      [] agent = "designer"  -> "design_specification"
      [] agent = "tech-lead" -> "task_assignment"
      [] agent = "developer" -> "completion_report"

\* what a producing agent may leave appended to its (just cleared) output file
Writes(agent, taskId) ==
    LET builds == IF agent = "developer" THEN BuildStatuses ELSE {"na"}
        others == TaskIds \ {taskId}
    IN  {<<>>}
        \cup {<<Msg(KindOf(agent), taskId, b)>> : b \in builds}
        \cup {<<Msg(KindOf(agent), o, b)>> : o \in others, b \in builds}
        \cup {<<Msg("design_verification", taskId, "na")>>}
        \cup (IF agent = "developer"
              THEN {<<Msg(KindOf(agent), taskId, "failed"), Msg(KindOf(agent), taskId, "success")>>,
                    <<Msg(KindOf(agent), taskId, "success"), Msg(KindOf(agent), taskId, "failed")>>}
              ELSE {})

\* how the child process ends: close with an exit code, close after the
\* timeout fired, or the 'error' event of a failed spawn
AgentOutcomes == {"exit0", "exit1_stderr", "exit1_quiet", "timeout", "spawn_error"}

\* the AgentResult runClaudeAgent resolves with ("" stands for undefined)
runClaudeAgent(outcome, output) ==
    CASE outcome = "timeout" ->
            [success |-> FALSE, output |-> output, error |-> "Agent execution timed out"]
      [] outcome = "spawn_error" ->
            [success |-> FALSE, output |-> output, error |-> "spawn ENOENT"]
      [] outcome = "exit0" ->
            [success |-> TRUE, output |-> output, error |-> ""]
      [] outcome = "exit1_stderr" ->
            [success |-> FALSE, output |-> output, error |-> "stderr text"]
      [] outcome = "exit1_quiet" ->
            [success |-> FALSE, output |-> output, error |-> ""]

NoAgentResult == [success |-> FALSE, output |-> "", error |-> ""]

\* a || b on strings
OrElse(a, b) == IF a = "" THEN b ELSE a

\* what the review agent prints
ReviewOutputs == {"APPROVE", "REJECT: missing tests", "REJECT: cannot approve yet", "no verdict"}

\* output.toLowerCase().includes('approve')
includesApprove(output) == output \in {"APPROVE", "REJECT: cannot approve yet"}

\* output.match(/REJECT:\s*(.+)/i): the captured reason, "" when no match
rejectMatch(output) ==
    CASE output = "REJECT: missing tests"      -> "missing tests"
      [] output = "REJECT: cannot approve yet" -> "cannot approve yet"
      [] OTHER                                 -> ""

(***************************************************************************)
(* status.json (project.ts)                                                *)
(***************************************************************************)
updateAgentStatus(st, agent, agentStatus, currentTask) ==
    CASE agent = "planner"  -> [st EXCEPT !.planner = agentStatus]
      [] agent = "designer" -> [st EXCEPT !.designer = agentStatus]
      [] agent \in {"techLead", "teamLead"} -> [st EXCEPT !.techLead = agentStatus]
      [] agent = "developer" ->
            [st EXCEPT !.developer = agentStatus,
                       !.developerTask = IF currentTask = NoTask
                                         THEN st.developerTask ELSE currentTask]

updateOrchestratorStatus(st, running) == [st EXCEPT !.running = running]

updateCycleStats(st, cycleNumber, completed, failed, remaining) ==
    [st EXCEPT !.lastCycle = [number |-> cycleNumber, completed |-> completed,
                              failed |-> failed, remaining |-> remaining]]

(***************************************************************************)
(* runDesignVerification / compareDesignTokens: the aggregate of a         *)
(* comparison of `total` expected tokens of which `matching` matched.      *)
(***************************************************************************)
minMatchPercentage == 90

\* Math.round((matchingCount / totalChecked) * 100), 100 when nothing was
\* checked.  The quotient is a double; for totals below 40 the rounded
\* product is the integer computed here (at 23 of 40 the double is
\* 57.49999999999999 and rounds to 57).
matchPercentage(total, matching) ==
    IF total > 0 THEN (200 * matching + total) \div (2 * total) ELSE 100

compareDesignTokens(total, matching) ==
    [verified        |-> matchPercentage(total, matching) >= minMatchPercentage,
     matchPercentage |-> matchPercentage(total, matching),
     discrepancies   |-> total - matching]

\* variant: a verification that threw counts as not verified
verificationError_Unverified == [verified |-> FALSE, matchPercentage |-> 0, discrepancies |-> 0]

\* the catch block of runDesignVerification
verificationError == [verified |-> TRUE, matchPercentage |-> 0, discrepancies |-> 0]

\* threw: extractCSSTokens, compareDesignTokens or the report's writeJSON throws
runDesignVerification(v) ==
    IF v.threw THEN verificationError ELSE compareDesignTokens(v.total, v.matching)

VerificationInputs ==
    {[threw |-> TRUE, total |-> 0, matching |-> 0]}
    \cup {v \in [threw : {FALSE}, total : 0..MaxTokens, matching : 0..MaxTokens] :
             v.matching <= v.total}

NoVerification == [verified |-> FALSE, matchPercentage |-> 0, discrepancies |-> 0]

(***************************************************************************)
(* processTaskV2: results and locals                                       *)
(***************************************************************************)
NoResult ==
    [success |-> FALSE, error |-> "", phase |-> "none",
     hasVerification |-> FALSE, designVerification |-> NoVerification]

\* variant: the failure does not name its phase
Fail_WithoutPhase(phase, error) == [NoResult EXCEPT !.error = error]

\* return { success: false, error, phase }
Fail(phase, error) == [NoResult EXCEPT !.error = error, !.phase = phase]

\* the catch block: return { success: false, error: String(error) }
Caught == [NoResult EXCEPT !.error = "Error: thrown"]

\* return { success: true, designVerification: verificationResult }
Success(v) == [NoResult EXCEPT !.success = TRUE, !.hasVerification = TRUE,
                               !.designVerification = v]

NoReview == [approved |-> FALSE, reason |-> ""]

IdleRun ==
    [pc |-> "idle", task |-> NoTask, planningDoc |-> NoMsg, designSpec |-> NoMsg,
     report |-> NoMsg, agentResult |-> NoAgentResult, reviewResult |-> NoReview,
     verification |-> NoVerification, result |-> NoResult]

NoHist == [invoked |-> <<>>, failed |-> {}, consumed |-> {}, threw |-> FALSE,
           verifyThrew |-> FALSE]

\* ran: the tasks handed to processTaskV2 so far in the cycle
\* ok:  result.success of each run of the cycle that has returned
\* before: the queue as the cycle found it
StoppedSched ==
    [pc |-> "stopped", cycle |-> 0, batch |-> <<>>, idx |-> 1,
     completed |-> 0, failed |-> 0, ran |-> <<>>, ok |-> <<>>,
     before |-> createDefaultQueue]

Init ==
    /\ queue = createDefaultQueue
    /\ mail = [t \in MessageTargets |-> EmptyMessageFile]
    /\ status = createDefaultStatus
    /\ config \in [maxTasks : 1..MaxBatch, continuous : BOOLEAN]
    /\ sched = StoppedSched
    /\ run = IdleRun
    /\ activeProcesses = {}
    /\ hist = NoHist

\* leave the try block with a result; the finally block runs next
Return(r) == [run EXCEPT !.pc = "finally", !.result = r]

\* an exception inside the try block: the catch block, then finally
Throw == /\ run' = Return(Caught)
         /\ hist' = [hist EXCEPT !.threw = TRUE]

WaitPc(agent) ==
    CASE agent = "planner"   -> "planner_wait"
      [] agent = "designer"  -> "designer_wait"
      [] agent = "tech-lead" -> "tech_lead_wait"
      [] agent = "developer" -> "developer_wait"

DonePc(agent) ==
    CASE agent = "planner"   -> "planner_done"
      [] agent = "designer"  -> "designer_done"
      [] agent = "tech-lead" -> "tech_lead_done"
      [] agent = "developer" -> "developer_done"

\* activeProcesses.set(id, process)
registerProcess(procs, id) == procs \cup {id}

\* variant: the entry stays in the registry when the process has exited
unregisterProcess_Keeps(procs, id) == procs

\* activeProcesses.delete(id)
unregisterProcess(procs, id) == procs \ {id}

\* spawn + registerProcess, remembered in the run's history
Invoke(agent) ==
    /\ activeProcesses' = registerProcess(activeProcesses, agent)
    /\ hist' = [hist EXCEPT !.invoked = Append(@, agent)]

(***************************************************************************)
(* processTaskV2, one action per awaited step                              *)
(***************************************************************************)
\* the task loop calls processTaskV2: setCurrentTask(task.id)
StartTask ==
    /\ sched.pc = "tasks"
    /\ sched.idx <= Len(sched.batch)
    /\ run.pc = "idle"
    /\ queue' = setCurrentTask(queue, sched.batch[sched.idx])
    /\ run' = [IdleRun EXCEPT !.pc = "set_status", !.task = sched.batch[sched.idx]]
    /\ hist' = NoHist
    /\ mail' = MarkStale(mail)
    /\ sched' = [sched EXCEPT !.ran = Append(@, sched.batch[sched.idx])]
    /\ UNCHANGED <<status, activeProcesses, config>>

\* updateTaskStatus(task.id, 'in_progress')
PT_InProgress ==
    /\ run.pc = "set_status"
    /\ IF Throws(queue, run.task)
       THEN Throw /\ UNCHANGED queue
       ELSE /\ queue' = updateTaskStatus(queue, run.task, "in_progress")
            /\ run' = [run EXCEPT !.pc = "planner"]
            /\ UNCHANGED hist
    /\ UNCHANGED <<mail, status, sched, activeProcesses, config>>

\* runPlanner up to the spawn of the agent
RunPlanner ==
    /\ run.pc = "planner"
    /\ status' = updateAgentStatus(status, "planner", "planning", NoTask)
    /\ mail' = clearMessages(mail, "toDesigner")
    /\ Invoke("planner")
    /\ run' = [run EXCEPT !.pc = WaitPc("planner")]
    /\ UNCHANGED <<queue, sched, config>>

\* the files a producing agent can leave behind: it appends to what it found,
\* or leaves a file that does not parse
AgentFiles(agent, taskId, file) ==
    {[valid |-> TRUE, messages |-> file.messages \o w] : w \in Writes(agent, taskId)}
    \cup {CorruptMessageFile}

\* the child process of a producing agent ends: runClaudeAgent resolves
AgentExit ==
    \E agent \in Producers :
        /\ agent \in activeProcesses
        /\ run.pc = WaitPc(agent)
        /\ \E outcome \in AgentOutcomes :
           \E file \in AgentFiles(agent, run.task, mail[OutBox(agent)]) :
              /\ outcome = "spawn_error" => file = mail[OutBox(agent)]
              /\ mail' = [mail EXCEPT ![OutBox(agent)] = file]
              /\ run' = [run EXCEPT !.pc = DonePc(agent),
                                    !.agentResult = runClaudeAgent(outcome, "")]
              /\ hist' = [hist EXCEPT !.failed =
                            IF runClaudeAgent(outcome, "").success THEN @ ELSE @ \cup {agent}]
        /\ activeProcesses' = unregisterProcess(activeProcesses, agent)
        /\ UNCHANGED <<queue, status, sched, config>>

\* variant: an aborted phase rejects the task
abortPhase_Rejects(q, taskId, error) == rejectTask(q, taskId, error)

\* what processTaskV2 does with the queue when a phase before the review aborts
abortPhase(q, taskId, error) == q

\* runPlanner returns; processTaskV2 reads the planning document back
PlannerDone ==
    /\ run.pc = DonePc("planner")
    /\ status' = updateAgentStatus(status, "planner", "idle", NoTask)
    /\ IF ~run.agentResult.success
       THEN /\ run' = Return(Fail("planner",
                        OrElse(run.agentResult.error, "Planner failed to create planning document")))
            /\ queue' = abortPhase(queue, run.task, run.agentResult.error)
            /\ UNCHANGED hist
       ELSE IF readThrows(mail, "toDesigner")
       THEN Throw /\ UNCHANGED queue
       ELSE LET planningDoc == find(mail["toDesigner"].messages, "planning_document", run.task)
            IN IF planningDoc = NoMsg
               THEN /\ run' = Return(Fail("planner", "Planner did not create planning document"))
                    /\ queue' = abortPhase(queue, run.task, "Planner did not create planning document")
                    /\ UNCHANGED hist
               ELSE /\ run' = [run EXCEPT !.pc = "designer", !.planningDoc = planningDoc]
                    /\ hist' = [hist EXCEPT !.consumed = @ \cup {planningDoc}]
                    /\ UNCHANGED queue
    /\ UNCHANGED <<mail, sched, activeProcesses, config>>

\* runDesigner up to the spawn of the agent
RunDesigner ==
    /\ run.pc = "designer"
    /\ status' = updateAgentStatus(status, "designer", "designing", NoTask)
    /\ mail' = clearMessages(mail, "toTechLead")
    /\ Invoke("designer")
    /\ run' = [run EXCEPT !.pc = WaitPc("designer")]
    /\ UNCHANGED <<queue, sched, config>>

\* runDesigner returns; processTaskV2 reads the design specification back
DesignerDone ==
    /\ run.pc = DonePc("designer")
    /\ status' = updateAgentStatus(status, "designer", "idle", NoTask)
    /\ IF ~run.agentResult.success
       THEN /\ run' = Return(Fail("designer",
                        OrElse(run.agentResult.error, "Designer failed to create design specification")))
            /\ queue' = abortPhase(queue, run.task, run.agentResult.error)
            /\ UNCHANGED hist
       ELSE IF readThrows(mail, "toTechLead")
       THEN Throw /\ UNCHANGED queue
       ELSE LET designSpec == find(mail["toTechLead"].messages, "design_specification", run.task)
            IN IF designSpec = NoMsg
               THEN /\ run' = Return(Fail("designer", "Designer did not create design specification"))
                    /\ queue' = abortPhase(queue, run.task, "Designer did not create design specification")
                    /\ UNCHANGED hist
               ELSE /\ run' = [run EXCEPT !.pc = "tech_lead", !.designSpec = designSpec]
                    /\ hist' = [hist EXCEPT !.consumed = @ \cup {designSpec}]
                    /\ UNCHANGED queue
    /\ UNCHANGED <<mail, sched, activeProcesses, config>>

\* runTechLead up to the spawn of the agent
RunTechLead ==
    /\ run.pc = "tech_lead"
    /\ status' = updateAgentStatus(status, "techLead", "assigning", NoTask)
    /\ mail' = clearMessages(mail, "toDeveloper")
    /\ Invoke("tech-lead")
    /\ run' = [run EXCEPT !.pc = WaitPc("tech-lead")]
    /\ UNCHANGED <<queue, sched, config>>

\* runTechLead returns
TechLeadDone ==
    /\ run.pc = DonePc("tech-lead")
    /\ status' = updateAgentStatus(status, "techLead", "idle", NoTask)
    /\ IF ~run.agentResult.success
       THEN /\ run' = Return(Fail("tech_lead",
                        OrElse(run.agentResult.error, "Tech Lead failed to create instructions")))
            /\ queue' = abortPhase(queue, run.task, run.agentResult.error)
       ELSE /\ run' = [run EXCEPT !.pc = "developer"]
            /\ UNCHANGED queue
    /\ UNCHANGED <<mail, sched, activeProcesses, hist, config>>

\* runDeveloper up to the spawn of the agent; without instructions it
\* returns a failed result and nothing is spawned
RunDeveloper ==
    /\ run.pc = "developer"
    /\ IF readThrows(mail, "toDeveloper")
       THEN Throw /\ UNCHANGED <<queue, mail, status, activeProcesses>>
       ELSE LET instruction == find(mail["toDeveloper"].messages, "task_assignment", run.task)
            IN IF instruction = NoMsg
               THEN /\ run' = Return(Fail("developer", "No instructions found from Team Lead"))
                    /\ queue' = abortPhase(queue, run.task, "No instructions found from Team Lead")
                    /\ UNCHANGED <<mail, status, activeProcesses, hist>>
               ELSE /\ status' = updateAgentStatus(status, "developer", "implementing", run.task)
                    /\ mail' = clearMessages(mail, "toTeamLead")
                    /\ activeProcesses' = registerProcess(activeProcesses, "developer")
                    /\ hist' = [hist EXCEPT !.invoked = Append(@, "developer"),
                                            !.consumed = @ \cup {instruction}]
                    /\ run' = [run EXCEPT !.pc = WaitPc("developer")]
                    /\ UNCHANGED queue
    /\ UNCHANGED <<sched, config>>

\* runDeveloper returns; on success the task becomes awaiting_review
DeveloperDone ==
    /\ run.pc = DonePc("developer")
    /\ status' = updateAgentStatus(status, "developer", "idle", NoTask)
    /\ IF ~run.agentResult.success
       THEN /\ run' = Return(Fail("developer",
                        OrElse(run.agentResult.error, "Developer failed to implement task")))
            /\ queue' = abortPhase(queue, run.task, run.agentResult.error)
            /\ UNCHANGED hist
       ELSE IF Throws(queue, run.task)
       THEN Throw /\ UNCHANGED queue
       ELSE /\ queue' = updateTaskStatus(queue, run.task, "awaiting_review")
            /\ run' = [run EXCEPT !.pc = "review"]
            /\ UNCHANGED hist
    /\ UNCHANGED <<mail, sched, activeProcesses, config>>

\* variant: the build result of the report is not looked at
earlyReview_IgnoresBuild(report) ==
    CASE report = NoMsg -> [approved |-> FALSE, reason |-> "No completion report found"]
      [] OTHER          -> NoReview

\* runReview before any agent is spawned: the two early returns; NoReview
\* means that the review agent is to be invoked
earlyReview(report) ==
    CASE report = NoMsg          -> [approved |-> FALSE, reason |-> "No completion report found"]
      [] report.build = "failed" -> [approved |-> FALSE, reason |-> "Build verification failed"]
      [] OTHER                   -> NoReview

\* variant: the output of the review agent is never taken as an approval
parseReview_NeverApproves(result) == [approved |-> FALSE, reason |-> "Review failed"]

\* runReview after the agent: the decision parsed from its output
parseReview(result) ==
    IF includesApprove(result.output)
    THEN [approved |-> TRUE, reason |-> ""]
    ELSE [approved |-> FALSE, reason |-> OrElse(rejectMatch(result.output), "Review failed")]

\* runReview up to the spawn of the review agent, or to its early return
RunReview ==
    /\ run.pc = "review"
    /\ IF readThrows(mail, "toTeamLead")
       THEN Throw /\ UNCHANGED <<status, activeProcesses>>
       ELSE LET report == find(mail["toTeamLead"].messages, "completion_report", run.task)
            IN IF earlyReview(report) # NoReview
               THEN /\ run' = [run EXCEPT !.pc = "decided", !.report = report,
                                          !.reviewResult = earlyReview(report)]
                    /\ hist' = [hist EXCEPT !.consumed = @ \cup ({report} \ {NoMsg})]
                    /\ UNCHANGED <<status, activeProcesses>>
               ELSE /\ status' = updateAgentStatus(status, "teamLead", "reviewing", NoTask)
                    /\ activeProcesses' = registerProcess(activeProcesses, "review")
                    /\ hist' = [hist EXCEPT !.invoked = Append(@, "review"),
                                            !.consumed = @ \cup {report}]
                    /\ run' = [run EXCEPT !.pc = "review_wait", !.report = report]
    /\ UNCHANGED <<queue, mail, sched, config>>

\* the child process of the review agent ends
ReviewExit ==
    /\ "review" \in activeProcesses
    /\ run.pc = "review_wait"
    /\ \E outcome \in AgentOutcomes :
       \E output \in ReviewOutputs \cup {""} :
          /\ outcome = "spawn_error" => output = ""
          /\ run' = [run EXCEPT !.pc = "review_done",
                                !.agentResult = runClaudeAgent(outcome, output)]
          /\ hist' = [hist EXCEPT !.failed =
                        IF runClaudeAgent(outcome, output).success THEN @ ELSE @ \cup {"review"}]
    /\ activeProcesses' = unregisterProcess(activeProcesses, "review")
    /\ UNCHANGED <<queue, mail, status, sched, config>>

\* runReview returns the parsed decision
ReviewDone ==
    /\ run.pc = "review_done"
    /\ status' = updateAgentStatus(status, "teamLead", "idle", NoTask)
    /\ run' = [run EXCEPT !.pc = "decided", !.reviewResult = parseReview(run.agentResult)]
    /\ UNCHANGED <<queue, mail, sched, activeProcesses, hist, config>>

\* if (!reviewResult.approved): rejectTask and return the failure
PT_Reject ==
    /\ run.pc = "decided"
    /\ ~run.reviewResult.approved
    /\ IF Throws(queue, run.task)
       THEN Throw /\ UNCHANGED queue
       ELSE /\ queue' = rejectTask(queue, run.task, OrElse(run.reviewResult.reason, "Review failed"))
            /\ run' = Return(Fail("review", OrElse(run.reviewResult.reason, "Review failed")))
            /\ UNCHANGED hist
    /\ UNCHANGED <<mail, status, sched, activeProcesses, config>>

\* phase 6: runDesignVerification (it catches what it throws)
PT_Verify ==
    /\ run.pc = "decided"
    /\ run.reviewResult.approved
    /\ \E v \in VerificationInputs :
          /\ run' = [run EXCEPT !.pc = "complete", !.verification = runDesignVerification(v)]
          /\ hist' = [hist EXCEPT !.verifyThrew = v.threw]
    /\ status' = updateAgentStatus(updateAgentStatus(status, "designer", "verifying", NoTask),
                                   "designer", "idle", NoTask)
    /\ UNCHANGED <<queue, mail, sched, activeProcesses, config>>

\* variant: a failed verification rejects the task
afterVerification_Gates(q, taskId, verification) ==
    IF verification.verified
    THEN completeTask(q, taskId)
    ELSE rejectTask(q, taskId, "Design verification failed")

\* what phase 6 hands to the rest of processTaskV2: the task is completed
\* whatever the verification found
afterVerification(q, taskId, verification) == completeTask(q, taskId)

\* completeTask, the read of the completion report for the log, the success result
PT_Complete ==
    /\ run.pc = "complete"
    /\ IF Throws(queue, run.task)
       THEN Throw /\ UNCHANGED queue
       ELSE /\ queue' = afterVerification(queue, run.task, run.verification)
            /\ IF readThrows(mail, "toTeamLead")
               THEN Throw
               ELSE /\ run' = Return(Success(run.verification))
                    /\ UNCHANGED hist
    /\ UNCHANGED <<mail, status, sched, activeProcesses, config>>

\* variant: the finally block of the two-agent processTask
finallyBlock_Legacy(q, m) ==
    [queue |-> setCurrentTask(q, NoTask),
     mail  |-> clearMessages(clearMessages(m, "toDeveloper"), "toTeamLead")]

\* the finally block: release the current pointer, clear the four files
finallyBlock(q, m) ==
    [queue |-> setCurrentTask(q, NoTask),
     mail  |-> clearMessages(clearMessages(clearMessages(clearMessages(m,
                  "toDesigner"), "toTechLead"), "toDeveloper"), "toTeamLead")]

PT_Finally ==
    /\ run.pc = "finally"
    /\ queue' = finallyBlock(queue, mail).queue
    /\ mail' = finallyBlock(queue, mail).mail
    /\ run' = [run EXCEPT !.pc = "returned"]
    /\ UNCHANGED <<status, sched, activeProcesses, hist, config>>

(***************************************************************************)
(* startCommand: the cycle loop                                            *)
(***************************************************************************)
\* variant: rejected tasks are picked up again
tasksToProcess_WithRejected(q, maxTasks) ==
    Slice(Ids(getInProgressTasks(q) \o getPendingTasks(q) \o SelectSeqBy(q.tasks, "rejected")),
          maxTasks)

\* [...inProgressTasks, ...pendingTasks].slice(0, config.maxTasks)
tasksToProcess(q, maxTasks) ==
    Slice(Ids(getInProgressTasks(q) \o getPendingTasks(q)), maxTasks)

\* the tasks a discovery agent appends to queue.json, as its prompt asks
RECURSIVE discovered(_, _)
discovered(q, n) ==
    IF n = 0 THEN q
    ELSE discovered([q EXCEPT !.tasks = Append(@, [id |-> generateTaskId(q),
                                                   status |-> "pending",
                                                   rejectionReason |-> NoReason])], n - 1)

TotalTasks(q) == Len(q.tasks) + Len(q.completed)

\* claude-orchestrator start: mark as running, enter the loop
Start ==
    /\ sched.pc = "stopped"
    /\ sched' = [StoppedSched EXCEPT !.pc = "loop"]
    /\ status' = updateOrchestratorStatus(status, TRUE)
    /\ UNCHANGED <<queue, mail, run, activeProcesses, hist, config>>

\* top of the while loop: the batch, or the discovery agent when it is empty
CycleBegin ==
    /\ sched.pc = "loop"
    /\ sched.cycle < MaxCycles
    /\ IF tasksToProcess(queue, config.maxTasks) = <<>>
       THEN /\ sched' = [sched EXCEPT !.pc = "discovery", !.cycle = @ + 1, !.batch = <<>>,
                                      !.ran = <<>>, !.ok = <<>>,
                                      !.before = queue]
            /\ status' = updateAgentStatus(status, "teamLead", "analyzing", NoTask)
            /\ activeProcesses' = registerProcess(activeProcesses, "discovery")
       ELSE /\ sched' = [sched EXCEPT !.pc = "tasks", !.cycle = @ + 1, !.idx = 1,
                                      !.batch = tasksToProcess(queue, config.maxTasks),
                                      !.completed = 0, !.failed = 0, !.ran = <<>>,
                                      !.ok = <<>>,
                                      !.before = queue]
            /\ UNCHANGED <<status, activeProcesses>>
    /\ UNCHANGED <<queue, mail, run, hist, config>>

\* runDiscovery returns; the loop re-checks the pending tasks
DiscoveryExit ==
    /\ sched.pc = "discovery"
    /\ "discovery" \in activeProcesses
    /\ \E outcome \in AgentOutcomes, n \in 0..MaxTasks :
          /\ n <= MaxTasks - TotalTasks(queue)
          /\ outcome = "spawn_error" => n = 0
          /\ queue' = discovered(queue, n)
          /\ LET success == runClaudeAgent(outcome, "").success
                 newPendingTasks == Ids(getPendingTasks(queue'))
             IN sched' =
                  IF ~success /\ ~config.continuous THEN [sched EXCEPT !.pc = "finish"]
                  ELSE IF newPendingTasks = <<>>
                  THEN [sched EXCEPT !.pc = IF config.continuous THEN "loop" ELSE "finish"]
                  ELSE [sched EXCEPT !.pc = "tasks", !.idx = 1, !.completed = 0, !.failed = 0,
                                     !.batch = Slice(newPendingTasks, config.maxTasks)]
    /\ status' = updateAgentStatus(status, "techLead", "idle", NoTask)
    /\ activeProcesses' = unregisterProcess(activeProcesses, "discovery")
    /\ UNCHANGED <<mail, run, hist, config>>

\* variant: a task that failed ends the task loop
TaskReturned_StopsOnFailure ==
    /\ sched.pc = "tasks"
    /\ run.pc = "returned"
    /\ sched' = [sched EXCEPT !.idx = @ + 1, !.ok = Append(@, run.result.success),
                              !.pc = IF run.result.success THEN @ ELSE "finish",
                              !.completed = IF run.result.success THEN @ + 1 ELSE @,
                              !.failed = IF run.result.success THEN @ ELSE @ + 1]
    /\ run' = IdleRun
    /\ hist' = NoHist
    /\ UNCHANGED <<queue, mail, status, activeProcesses, config>>

\* variant: a run that ended in the catch block is counted nowhere
TaskReturned_SkipsThrown ==
    /\ sched.pc = "tasks"
    /\ run.pc = "returned"
    /\ sched' = [sched EXCEPT !.idx = @ + 1, !.ok = Append(@, run.result.success),
                              !.completed = IF run.result.success THEN @ + 1 ELSE @,
                              !.failed = IF run.result.success \/ run.result = Caught
                                         THEN @ ELSE @ + 1]
    /\ run' = IdleRun
    /\ hist' = NoHist
    /\ UNCHANGED <<queue, mail, status, activeProcesses, config>>

\* processTaskV2 has returned to the task loop: count the result
TaskReturned ==
    /\ sched.pc = "tasks"
    /\ run.pc = "returned"
    /\ sched' = [sched EXCEPT !.idx = @ + 1, !.ok = Append(@, run.result.success),
                              !.completed = IF run.result.success THEN @ + 1 ELSE @,
                              !.failed = IF run.result.success THEN @ ELSE @ + 1]
    /\ run' = IdleRun
    /\ hist' = NoHist
    /\ UNCHANGED <<queue, mail, status, activeProcesses, config>>

\* after the task loop: updateCycleStats and the continue check
CycleEnd ==
    /\ sched.pc = "tasks"
    /\ run.pc = "idle"
    /\ sched.idx > Len(sched.batch)
    /\ LET remaining == Len(getPendingTasks(queue))
       IN /\ status' = updateCycleStats(status, sched.cycle, sched.completed, sched.failed, remaining)
          /\ sched' = [sched EXCEPT !.pc = IF ~config.continuous /\ remaining = 0
                                           THEN "finish" ELSE "loop"]
    /\ UNCHANGED <<queue, mail, run, activeProcesses, hist, config>>

\* the finally block of startCommand
Finish ==
    /\ sched.pc = "finish"
    /\ status' = updateOrchestratorStatus(status, FALSE)
    /\ activeProcesses' = {}
    /\ sched' = StoppedSched
    /\ UNCHANGED <<queue, mail, run, hist, config>>

\* the orchestrator process dies (kill -9, power loss) with its children
\* while it waits for a child process, which is where its time goes: the
\* files stay as they are, everything in memory is gone
Crash ==
    /\ sched.pc # "stopped"
    /\ activeProcesses # {}
    /\ sched' = StoppedSched
    /\ run' = IdleRun
    /\ hist' = NoHist
    /\ activeProcesses' = {}
    /\ UNCHANGED <<queue, mail, status, config>>

\* a rejected task is reset for a retry while the orchestrator is stopped
ResetTask ==
    /\ sched.pc = "stopped"
    /\ \E i \in 1..Len(queue.tasks) :
          /\ queue.tasks[i].status = "rejected"
          /\ queue' = resetTask(queue, queue.tasks[i].id)
    /\ UNCHANGED <<mail, status, sched, run, activeProcesses, hist, config>>

Next ==
    \/ Start \/ CycleBegin \/ DiscoveryExit \/ StartTask \/ TaskReturned
    \/ CycleEnd \/ Finish \/ Crash \/ ResetTask
    \/ PT_InProgress \/ RunPlanner \/ AgentExit \/ PlannerDone
    \/ RunDesigner \/ DesignerDone \/ RunTechLead \/ TechLeadDone
    \/ RunDeveloper \/ DeveloperDone \/ RunReview \/ ReviewExit \/ ReviewDone
    \/ PT_Reject \/ PT_Verify \/ PT_Complete \/ PT_Finally


Spec == Init /\ [][Next]_vars

\* The same program started with a maxTasks below 1, which neither the
\* --max-tasks option nor the configuration file is checked against
SmallBatchInit ==
    /\ queue = createDefaultQueue
    /\ mail = [t \in MessageTargets |-> EmptyMessageFile]
    /\ status = createDefaultStatus
    /\ config \in [maxTasks : {-1, 0}, continuous : BOOLEAN]
    /\ sched = StoppedSched
    /\ run = IdleRun
    /\ activeProcesses = {}
    /\ hist = NoHist

SmallBatchSpec == SmallBatchInit /\ [][Next]_vars

(***************************************************************************)
(* The Task Store on its own: any sequence of calls of queue.ts.  Tasks    *)
(* carry the two more fields getNextPendingTask sorts by.  hist records    *)
(* whether the last call threw, with the id it was given if it did, and    *)
(* the ids handed out so far.                                              *)
(***************************************************************************)
MaxStore == 2   \* tasks added over a behaviour
MaxClock == 1   \* latest reading of the wall clock

TaskStatus == {"pending", "in_progress", "awaiting_review", "completed", "rejected"}

TaskPriority == {"high", "medium", "low"}

priorityOrder(p) == CASE p = "high" -> 3 [] p = "medium" -> 2 [] p = "low" -> 1

Reasons == {"Review failed"}

\* { ...task, id: generateTaskId(queue), status: 'pending', createdAt: now }
newTask(q, task, now) ==
    [id |-> generateTaskId(q), status |-> "pending", rejectionReason |-> NoReason,
     priority |-> task.priority, createdAt |-> now]

addTask(q, task, now) == [q EXCEPT !.tasks = Append(@, newTask(q, task, now))]

\* the loop of addTasks: each id is generated over tasks and createdTasks
RECURSIVE createTasks(_, _, _, _)
createTasks(q, createdTasks, tasks, now) ==
    IF tasks = <<>> THEN createdTasks
    ELSE createTasks(q,
                     Append(createdTasks,
                            newTask([q EXCEPT !.tasks = q.tasks \o createdTasks],
                                    Head(tasks), now)),
                     Tail(tasks), now)

addTasks(q, tasks, now) == [q EXCEPT !.tasks = @ \o createTasks(q, <<>>, tasks, now)]

\* variant: a call with an id that is not found inserts a task with that id
notFound_Inserts(q, taskId) ==
    [q EXCEPT !.tasks = Append(@, [id |-> taskId, status |-> "pending",
                                   rejectionReason |-> NoReason,
                                   priority |-> "medium", createdAt |-> 0])]

\* 'Task not found' is thrown before saveQueue: the file stays as it is
notFound(q, taskId) == q

\* variant: the priorities are compared the other way round
compare_LowFirst(a, b) ==
    LET priorityDiff == priorityOrder(a.priority) - priorityOrder(b.priority)
    IN IF priorityDiff # 0 THEN priorityDiff ELSE a.createdAt - b.createdAt

\* the comparator of getNextPendingTask
compare(a, b) ==
    LET priorityDiff == priorityOrder(b.priority) - priorityOrder(a.priority)
    IN IF priorityDiff # 0 THEN priorityDiff ELSE a.createdAt - b.createdAt

\* Array.prototype.sort is stable: x goes behind every element it does not precede
RECURSIVE insertSorted(_, _)
insertSorted(sorted, x) ==
    IF sorted = <<>> THEN <<x>>
    ELSE IF compare(Head(sorted), x) <= 0
         THEN <<Head(sorted)>> \o insertSorted(Tail(sorted), x)
         ELSE <<x>> \o sorted

RECURSIVE sort(_)
sort(s) ==
    IF s = <<>> THEN <<>>
    ELSE insertSorted(sort(SubSeq(s, 1, Len(s) - 1)), s[Len(s)])

\* what getNextPendingTask returns for undefined
undefinedTask == Lookup(<<>>, NoTask)

getNextPendingTask(q) ==
    LET pending == getPendingTasks(q)
    IN IF Len(pending) = 0 THEN undefinedTask ELSE sort(pending)[1]

AllIds(q) == Range(Ids(q.tasks)) \cup Range(Ids(q.completed))

\* the ids a caller may pass: every id in the file, and one that is in neither list
CallIds(q) == AllIds(q) \cup {generateTaskId(q)}

NoCall == [id |-> NoTask, threw |-> FALSE, issued |-> <<>>]

\* of a call that threw, the id is remembered
Called(op, id, threw) ==
    [hist EXCEPT !.id = IF threw THEN id ELSE NoTask, !.threw = threw]

\* an empty queue, or one whose archive already holds task-998
StoreInit ==
    /\ \E n \in {0, 998} :
          /\ queue = IF n = 0 THEN createDefaultQueue
                     ELSE [createDefaultQueue EXCEPT !.completed =
                             <<[id |-> n, status |-> "completed", rejectionReason |-> NoReason,
                                priority |-> "medium", createdAt |-> 0]>>]
          /\ hist = [NoCall EXCEPT !.issued = IF n = 0 THEN <<>> ELSE <<n>>]
    /\ mail = [t \in MessageTargets |-> EmptyMessageFile]
    /\ status = createDefaultStatus
    /\ config = [maxTasks |-> 1, continuous |-> FALSE]
    /\ sched = StoppedSched
    /\ run = IdleRun
    /\ activeProcesses = {}

S_addTask ==
    /\ TotalTasks(queue) < MaxStore + (IF hist.issued # <<>> /\ hist.issued[1] = 998 THEN 1 ELSE 0)
    /\ \E p \in TaskPriority, now \in 0..MaxClock :
          queue' = addTask(queue, [priority |-> p], now)
    /\ hist' = [Called("addTask", generateTaskId(queue), FALSE)
                  EXCEPT !.issued = @ \o SubSeq(Ids(queue'.tasks), Len(queue.tasks) + 1,
                                                Len(queue'.tasks))]
    /\ UNCHANGED <<mail, status, config, sched, run, activeProcesses>>

S_addTasks ==
    /\ TotalTasks(queue) + 2 <= MaxStore + (IF hist.issued # <<>> /\ hist.issued[1] = 998 THEN 1 ELSE 0)
    /\ \E p1 \in TaskPriority, p2 \in TaskPriority, now \in 0..MaxClock :
          queue' = addTasks(queue, <<[priority |-> p1], [priority |-> p2]>>, now)
    /\ hist' = [Called("addTasks", generateTaskId(queue), FALSE)
                  EXCEPT !.issued = @ \o SubSeq(Ids(queue'.tasks), Len(queue.tasks) + 1,
                                                Len(queue'.tasks))]
    /\ UNCHANGED <<mail, status, config, sched, run, activeProcesses>>

S_updateTask ==
    /\ \E id \in CallIds(queue) :
       \E updates \in {[priority |-> p] : p \in TaskPriority} :
          /\ queue' = IF Throws(queue, id) THEN notFound(queue, id)
                      ELSE updateTask(queue, id, updates)
          /\ hist' = Called("updateTask", id, Throws(queue, id))
    /\ UNCHANGED <<mail, status, config, sched, run, activeProcesses>>

S_updateTaskStatus ==
    /\ \E id \in CallIds(queue), status_ \in TaskStatus :
          /\ queue' = IF Throws(queue, id) THEN notFound(queue, id)
                      ELSE updateTaskStatus(queue, id, status_)
          /\ hist' = Called("updateTaskStatus", id, Throws(queue, id))
    /\ UNCHANGED <<mail, status, config, sched, run, activeProcesses>>

S_setCurrentTask ==
    /\ \E id \in AllIds(queue) \cup {NoTask} :
          /\ queue' = setCurrentTask(queue, id)
          /\ hist' = Called("setCurrentTask", id, FALSE)
    /\ UNCHANGED <<mail, status, config, sched, run, activeProcesses>>

S_completeTask ==
    /\ \E id \in CallIds(queue) :
          /\ queue' = IF Throws(queue, id) THEN notFound(queue, id)
                      ELSE completeTask(queue, id)
          /\ hist' = Called("completeTask", id, Throws(queue, id))
    /\ UNCHANGED <<mail, status, config, sched, run, activeProcesses>>

S_rejectTask ==
    /\ \E id \in CallIds(queue), reason \in Reasons :
          /\ queue' = IF Throws(queue, id) THEN notFound(queue, id)
                      ELSE rejectTask(queue, id, reason)
          /\ hist' = Called("rejectTask", id, Throws(queue, id))
    /\ UNCHANGED <<mail, status, config, sched, run, activeProcesses>>

S_resetTask ==
    /\ \E id \in CallIds(queue) :
          /\ queue' = IF Throws(queue, id) THEN notFound(queue, id)
                      ELSE resetTask(queue, id)
          /\ hist' = Called("resetTask", id, Throws(queue, id))
    /\ UNCHANGED <<mail, status, config, sched, run, activeProcesses>>

StoreNext ==
    \/ S_addTask \/ S_addTasks \/ S_updateTask \/ S_updateTaskStatus
    \/ S_setCurrentTask \/ S_completeTask \/ S_rejectTask \/ S_resetTask

\* getQueueStats: the four counts over the active list, the length of the
\* completed list, and the two lengths together
getQueueStats(q) ==
    [pending        |-> Len(SelectSeqBy(q.tasks, "pending")),
     inProgress     |-> Len(SelectSeqBy(q.tasks, "in_progress")),
     awaitingReview |-> Len(SelectSeqBy(q.tasks, "awaiting_review")),
     rejected       |-> Len(SelectSeqBy(q.tasks, "rejected")),
     completed      |-> Len(q.completed),
     total          |-> Len(q.tasks) + Len(q.completed)]

StoreSpec == StoreInit /\ [][StoreNext]_vars

(***************************************************************************)
(* Shutdown on SIGINT / SIGTERM while a run is in flight.  The handler and *)
(* the pipeline are callbacks of one event loop: each awaited file         *)
(* operation is a step, and updateOrchestratorStatus / updateAgentStatus   *)
(* are a loadStatus step followed by a saveStatus step.                    *)
(*   sched : the handler, its position and the status object it loaded     *)
(*   run   : the pipeline, its position, phase and loaded status object    *)
(*   hist  : the processes registered when the signal came, and the ones   *)
(*           sent SIGTERM                                                  *)
(***************************************************************************)
StatusKey(agent) == IF agent = "tech-lead" THEN "techLead" ELSE agent

Working(agent) ==
    CASE agent = "planner"   -> "planning"
      [] agent = "designer"  -> "designing"
      [] agent = "tech-lead" -> "assigning"
      [] agent = "developer" -> "implementing"

\* killAllProcesses: every entry is sent SIGTERM and deleted
killAllProcesses(procs) == {}

ShutdownInit ==
    /\ queue = [tasks |-> <<[id |-> 1, status |-> "in_progress", rejectionReason |-> NoReason]>>,
                completed |-> <<>>, current |-> 1]
    /\ mail = [t \in MessageTargets |-> EmptyMessageFile]
    /\ status = updateOrchestratorStatus(createDefaultStatus, TRUE)
    /\ config = [maxTasks |-> 1, continuous |-> FALSE]
    /\ sched = [pc |-> "running", loaded |-> createDefaultStatus]
    /\ run = [pc |-> "load", phase |-> 1, to |-> "working", task |-> 1,
              loaded |-> createDefaultStatus, success |-> TRUE]
    /\ activeProcesses = {}
    /\ hist = [registered |-> {}, signalled |-> {}]

Alive == sched.pc # "exited"

\* the pipeline: loadStatus inside updateAgentStatus
SD_loadStatus ==
    /\ Alive
    /\ run.pc = "load"
    /\ run' = [run EXCEPT !.pc = "save", !.loaded = status]
    /\ UNCHANGED <<queue, mail, status, config, sched, activeProcesses, hist>>

\* the pipeline: saveStatus of the object loaded before, with the agent's
\* entry changed; then the spawn, the next phase, or the return of the run
SD_saveStatus ==
    /\ Alive
    /\ run.pc = "save"
    /\ status' = updateAgentStatus(run.loaded, StatusKey(PhaseOrder[run.phase]),
                                   IF run.to = "working" THEN Working(PhaseOrder[run.phase])
                                   ELSE "idle",
                                   IF run.to = "working" THEN run.task ELSE NoTask)
    /\ run' = IF run.to = "working" THEN [run EXCEPT !.pc = "spawn"]
              ELSE IF run.success /\ run.phase < Cardinality(Producers)
              THEN [run EXCEPT !.pc = "load", !.to = "working", !.phase = @ + 1]
              ELSE [run EXCEPT !.pc = "done"]
    /\ UNCHANGED <<queue, mail, config, sched, activeProcesses, hist>>

\* the pipeline: runClaudeAgent spawns the child and registers it
SD_spawn ==
    /\ Alive
    /\ run.pc = "spawn"
    /\ activeProcesses' = registerProcess(activeProcesses, PhaseOrder[run.phase])
    /\ run' = [run EXCEPT !.pc = "wait"]
    /\ UNCHANGED <<queue, mail, status, config, sched, hist>>

\* the child's close event: unregister, resolve; a child sent SIGTERM has
\* not succeeded
SD_close ==
    /\ Alive
    /\ run.pc = "wait"
    /\ \E ok \in BOOLEAN :
          /\ PhaseOrder[run.phase] \in hist.signalled => ~ok
          /\ run' = [run EXCEPT !.pc = "load", !.to = "idle", !.success = ok]
    /\ activeProcesses' = unregisterProcess(activeProcesses, PhaseOrder[run.phase])
    /\ UNCHANGED <<queue, mail, status, config, sched, hist>>

\* handleShutdown up to its first await: killAllProcesses
Signal ==
    /\ sched.pc = "running"
    /\ run.pc # "done"
    /\ hist' = [registered |-> activeProcesses, signalled |-> activeProcesses]
    /\ activeProcesses' = killAllProcesses(activeProcesses)
    /\ sched' = [sched EXCEPT !.pc = "cleanup"]
    /\ UNCHANGED <<queue, mail, status, config, run>>

\* cleanup: loadStatus inside updateOrchestratorStatus(projectPath, false)
Cleanup_loadStatus ==
    /\ sched.pc = "cleanup"
    /\ sched' = [sched EXCEPT !.pc = "loaded", !.loaded = status]
    /\ UNCHANGED <<queue, mail, status, config, run, activeProcesses, hist>>

\* cleanup: saveStatus of the loaded object with running = false
Cleanup_saveStatus ==
    /\ sched.pc = "loaded"
    /\ status' = updateOrchestratorStatus(sched.loaded, FALSE)
    /\ sched' = [sched EXCEPT !.pc = "saved"]
    /\ UNCHANGED <<queue, mail, config, run, activeProcesses, hist>>

\* cleanup: removePidFile
Cleanup_removePidFile ==
    /\ sched.pc = "saved"
    /\ sched' = [sched EXCEPT !.pc = "unlinked"]
    /\ UNCHANGED <<queue, mail, status, config, run, activeProcesses, hist>>

\* process.exit(0): no callback runs any more
ProcessExit ==
    /\ sched.pc = "unlinked"
    /\ sched' = [sched EXCEPT !.pc = "exited"]
    /\ UNCHANGED <<queue, mail, status, config, run, activeProcesses, hist>>

ShutdownNext ==
    \/ SD_loadStatus \/ SD_saveStatus \/ SD_spawn \/ SD_close
    \/ Signal \/ Cleanup_loadStatus \/ Cleanup_saveStatus \/ Cleanup_removePidFile
    \/ ProcessExit

ShutdownSpec == ShutdownInit /\ [][ShutdownNext]_vars

(***************************************************************************)
(* The parse of the review agent's output (runReview) and what             *)
(* processTaskV2 does with the decision.  An output is a sequence of       *)
(* tokens, each a run of characters: the two markers in upper and lower    *)
(* case, a blank, a line break, and a word that holds neither marker.      *)
(*   run : position, the output of the agent, the decision parsed from it  *)
(***************************************************************************)
MaxOutput == 3   \* tokens in the output of the review agent

OutputTokens == {"APPROVE", "approve", "REJECT:", "reject:", " ", "\n", "tests"}

ReviewTexts == UNION {[1..n -> OutputTokens] : n \in 0..MaxOutput}

\* String.prototype.toLowerCase
toLowerCase(s) ==
    [i \in 1..Len(s) |-> CASE s[i] = "APPROVE" -> "approve"
                           [] s[i] = "REJECT:" -> "reject:"
                           [] s[i] = "Primary" -> "primary"
                           [] OTHER            -> s[i]]

\* String.prototype.includes, for a marker that is one token
includes(s, marker) == \E i \in 1..Len(s) : s[i] = marker

\* \s of a regular expression
isWhitespace(tok) == tok \in {" ", "\n"}

\* String.prototype.trim
RECURSIVE trim(_)
trim(s) ==
    IF s = <<>> THEN s
    ELSE IF isWhitespace(s[1]) THEN trim(Tail(s))
    ELSE IF isWhitespace(s[Len(s)]) THEN trim(SubSeq(s, 1, Len(s) - 1))
    ELSE s

\* the end of the longest run of tokens from k on that '.' matches (no line
\* break); k - 1 when s[k] is a line break or k is past the end
RECURSIVE dotRun(_, _)
dotRun(s, k) ==
    IF k > Len(s) \/ s[k] = "\n" THEN k - 1 ELSE dotRun(s, k + 1)

\* /REJECT:\s*(.+)/i tried at position i: the places where the group can
\* start, after 'REJECT:' and a run of whitespace that leaves the group at
\* least one character
groupStarts(s, i) ==
    {k \in (i + 1)..Len(s) :
        /\ \A j \in (i + 1)..(k - 1) : isWhitespace(s[j])
        /\ dotRun(s, k) >= k}

\* output.match(/REJECT:\s*(.+)/i): the leftmost position where the
\* expression matches, \s* as long as it can be, (.+) to the end of the line;
\* found = FALSE stands for null
rejectMatchOf(s) ==
    LET low    == toLowerCase(s)
        starts == {i \in 1..Len(s) : low[i] = "reject:" /\ groupStarts(s, i) # {}}
    IN IF starts = {} THEN [found |-> FALSE, group |-> <<>>]
       ELSE LET i == CHOOSE x \in starts : \A y \in starts : x <= y
                k == CHOOSE x \in groupStarts(s, i) : \A y \in groupStarts(s, i) : y <= x
            IN [found |-> TRUE, group |-> SubSeq(s, k, dotRun(s, k))]

ReviewFailed == <<"Review failed">>

\* the decision runReview returns for an output; reason <<>> is '' and an
\* approval carries no reason
reviewDecision(text) ==
    IF includes(toLowerCase(text), "approve")
    THEN [approved |-> TRUE, reason |-> <<>>]
    ELSE [approved |-> FALSE,
          reason |-> IF rejectMatchOf(text).found THEN trim(rejectMatchOf(text).group)
                     ELSE ReviewFailed]

\* reviewResult.reason || 'Review failed'
reasonOrDefault(reason) == IF reason = <<>> THEN ReviewFailed ELSE reason

ReviewInit ==
    /\ queue = [tasks |-> <<[id |-> 1, status |-> "awaiting_review", rejectionReason |-> <<>>]>>,
                completed |-> <<>>, current |-> 1]
    /\ mail = [t \in MessageTargets |-> EmptyMessageFile]
    /\ status = updateAgentStatus(updateOrchestratorStatus(createDefaultStatus, TRUE),
                                  "teamLead", "reviewing", NoTask)
    /\ config = [maxTasks |-> 1, continuous |-> FALSE]
    /\ sched = [StoppedSched EXCEPT !.pc = "tasks", !.cycle = 1, !.batch = <<1>>, !.ran = <<1>>]
    /\ run \in {[pc |-> "review_done", task |-> 1, output |-> text,
                 reviewResult |-> [approved |-> FALSE, reason |-> <<>>],
                 result |-> NoResult] : text \in ReviewTexts}
    /\ activeProcesses = {}
    /\ hist = NoHist

\* runReview after the agent has returned: the parse
R_Parse ==
    /\ run.pc = "review_done"
    /\ status' = updateAgentStatus(status, "teamLead", "idle", NoTask)
    /\ run' = [run EXCEPT !.pc = "decided", !.reviewResult = reviewDecision(run.output)]
    /\ UNCHANGED <<queue, mail, config, sched, activeProcesses, hist>>

\* if (!reviewResult.approved): rejectTask, return the failure of phase review
R_Reject ==
    /\ run.pc = "decided"
    /\ ~run.reviewResult.approved
    /\ queue' = rejectTask(queue, run.task, reasonOrDefault(run.reviewResult.reason))
    /\ run' = [run EXCEPT !.pc = "finally", !.result = Fail("review", "rejected")]
    /\ UNCHANGED <<mail, status, config, sched, activeProcesses, hist>>

\* approved: phase 6 and completeTask
R_Complete ==
    /\ run.pc = "decided"
    /\ run.reviewResult.approved
    /\ queue' = completeTask(queue, run.task)
    /\ run' = [run EXCEPT !.pc = "finally", !.result = Success(NoVerification)]
    /\ UNCHANGED <<mail, status, config, sched, activeProcesses, hist>>

ReviewNext == R_Parse \/ R_Reject \/ R_Complete

ReviewSpec == ReviewInit /\ [][ReviewNext]_vars

(***************************************************************************)
(* One call of runClaudeAgent: the child process, the timer and the three  *)
(* callbacks (timeout, 'close', 'error') around one promise.               *)
(*   run  : the child (proc, code, stdout, stderr), the timer, timedOut,   *)
(*          which events were delivered, and the promise (settled, result) *)
(*   hist : how often proc.kill('SIGTERM') and resolve were called         *)
(***************************************************************************)
ExitCodes == {0, 1, -1}   \* -1 stands for null: the child was ended by a signal

NoExit == 99              \* the child has not exited

Pending == [success |-> FALSE, output |-> "", error |-> "", exitCode |-> NoExit]

\* variant: the close handler does not look at timedOut
closeResult_IgnoresTimeout(timedOut, code, stdout, stderr) ==
    [success |-> code = 0, output |-> stdout, error |-> stderr, exitCode |-> code]

\* what the 'close' handler resolves with ("" stands for undefined; code ?? -1)
closeResult(timedOut, code, stdout, stderr) ==
    IF timedOut
    THEN [success |-> FALSE, output |-> stdout, error |-> "Agent execution timed out",
          exitCode |-> -1]
    ELSE [success |-> code = 0, output |-> stdout, error |-> stderr, exitCode |-> code]

\* what the 'error' handler resolves with
errorResult(stdout, message) ==
    [success |-> FALSE, output |-> stdout, error |-> message, exitCode |-> -1]

\* resolve(value): a promise keeps the value of the first call
resolve(r, value) ==
    [r EXCEPT !.settled = TRUE, !.result = IF r.settled THEN r.result ELSE value]

\* clearTimeout(timeoutId)
clearTimeout(timer) == IF timer = "armed" THEN "cleared" ELSE timer

\* the ids runClaudeAgent is called with
AgentIds == Producers \cup {"review", "discovery"}

AgentInit ==
    /\ queue = createDefaultQueue
    /\ mail = [t \in MessageTargets |-> EmptyMessageFile]
    /\ status = updateOrchestratorStatus(createDefaultStatus, TRUE)
    /\ config = [maxTasks |-> 1, continuous |-> FALSE]
    /\ sched = [StoppedSched EXCEPT !.pc = "tasks"]
    /\ run \in {[id |-> id, proc |-> "none", code |-> NoExit, stdout |-> "", stderr |-> "",
                 timer |-> "none", timedOut |-> FALSE, closed |-> FALSE, errored |-> FALSE,
                 settled |-> FALSE, result |-> Pending] : id \in AgentIds}
    /\ activeProcesses = {}
    /\ hist = [kills |-> 0, resolves |-> 0]

\* spawn, registerProcess, setTimeout; the spawn itself may fail
A_Spawn ==
    /\ run.proc = "none"
    /\ \E ok \in BOOLEAN :
          run' = [run EXCEPT !.proc = IF ok THEN "running" ELSE "failed", !.timer = "armed"]
    /\ activeProcesses' = registerProcess(activeProcesses, run.id)
    /\ UNCHANGED <<queue, mail, status, config, sched, hist>>

\* the child writes to its stdout or stderr: the 'data' handlers, which
\* also run for what is still in the pipes when the child has exited
A_Data ==
    /\ run.proc \in {"running", "exited"}
    /\ ~run.closed
    /\ \E out \in {"", "APPROVE"}, err \in {"", "stderr text"} :
          /\ <<out, err>> # <<run.stdout, run.stderr>>
          /\ run.stdout = "" \/ out = run.stdout
          /\ run.stderr = "" \/ err = run.stderr
          /\ run' = [run EXCEPT !.stdout = out, !.stderr = err]
    /\ UNCHANGED <<queue, mail, status, config, sched, activeProcesses, hist>>

\* the child exits, by itself or by a signal; 'close' comes later, when its
\* streams have ended
A_Exit ==
    /\ run.proc = "running"
    /\ \E code \in ExitCodes : run' = [run EXCEPT !.proc = "exited", !.code = code]
    /\ UNCHANGED <<queue, mail, status, config, sched, activeProcesses, hist>>

\* the timer callback: timedOut = true; proc.kill('SIGTERM')
A_Timeout ==
    /\ run.timer = "armed"
    /\ run.proc \in {"running", "exited"}
    /\ run' = [run EXCEPT !.timer = "fired", !.timedOut = TRUE]
    /\ hist' = [hist EXCEPT !.kills = @ + 1]
    /\ UNCHANGED <<queue, mail, status, config, sched, activeProcesses>>

\* the 'close' handler
A_Close ==
    /\ ~run.closed
    /\ run.proc = "exited" \/ (run.proc = "failed" /\ run.errored)
    /\ run' = [resolve(run, closeResult(run.timedOut, run.code, run.stdout, run.stderr))
                  EXCEPT !.closed = TRUE, !.timer = clearTimeout(run.timer)]
    /\ activeProcesses' = unregisterProcess(activeProcesses, run.id)
    /\ hist' = [hist EXCEPT !.resolves = @ + 1]
    /\ UNCHANGED <<queue, mail, status, config, sched>>

\* the 'error' handler: the spawn failed
A_Error ==
    /\ run.proc = "failed"
    /\ ~run.errored
    /\ run' = [resolve(run, errorResult(run.stdout, "spawn ENOENT"))
                  EXCEPT !.errored = TRUE, !.timer = clearTimeout(run.timer)]
    /\ activeProcesses' = unregisterProcess(activeProcesses, run.id)
    /\ hist' = [hist EXCEPT !.resolves = @ + 1]
    /\ UNCHANGED <<queue, mail, status, config, sched>>

AgentNext == A_Spawn \/ A_Data \/ A_Exit \/ A_Timeout \/ A_Close \/ A_Error

AgentSpec == AgentInit /\ [][AgentNext]_vars

(***************************************************************************)
(* compareDesignTokens in full.  A token map is the sequence of its        *)
(* entries in Object.entries order.  A name is a sequence of words and     *)
(* separators, a value a sequence of characters with a unit as one token.  *)
(*   run : the two token sets and the ComparisonResult                     *)
(***************************************************************************)
MaxEntries == 2   \* entries of a token map

colorTolerance == 5

spacingTolerance == 2

TokenNames == {<<"primary">>, <<"Primary">>, <<"color", "-", "primary">>, <<"gap">>}

\* '#FFFFFF', '#fff', '#000000' and ''
ColorValues ==
    {<<"#", "F", "F", "F", "F", "F", "F">>, <<"#", "f", "f", "f">>,
     <<"#", "0", "0", "0", "0", "0", "0">>, <<>>}

\* '8px', '1rem', '.px', 'auto' and ''
SpacingValues == {<<"8", "px">>, <<"1", "rem">>, <<".", "px">>, <<"auto">>, <<>>}

\* the maps with at most MaxEntries entries and distinct keys
TokenMaps(values) ==
    UNION {{mp \in [1..n -> [name : TokenNames, value : values]] :
               \A i, j \in 1..n : i # j => mp[i].name # mp[j].name} : n \in 0..MaxEntries}

undefined == <<"undefined">>

\* !cssValue: undefined and the empty string are falsy
falsy(v) == v = undefined \/ v = <<>>

\* tokens[name]
valueOf(tokens, name) ==
    IF \E i \in 1..Len(tokens) : tokens[i].name = name
    THEN tokens[CHOOSE i \in 1..Len(tokens) : tokens[i].name = name].value
    ELSE undefined

\* the first entry, in Object.entries order, among those that satisfy the
\* loop's test (hits holds their positions); 0 when none
firstEntry(hits) ==
    IF hits = {} THEN 0 ELSE CHOOSE i \in hits : \A j \in hits : i <= j

\* name.toLowerCase().replace(/[-_]/g, '')
normalizedName(name) == SelectSeq(toLowerCase(name), LAMBDA t : t \notin {"-", "_"})

\* name.split('-').pop()?.toLowerCase()
RECURSIVE baseName(_)
baseName(name) ==
    IF \E i \in 1..Len(name) : name[i] = "-"
    THEN baseName(Tail(name))
    ELSE toLowerCase(name)

\* String.prototype.endsWith
endsWith(s, suffix) ==
    /\ Len(suffix) <= Len(s)
    /\ SubSeq(s, Len(s) - Len(suffix) + 1, Len(s)) = suffix

\* variant: a name that matches nothing gets the value of the first token
findMatchingToken_FirstAsFallback(name, tokens) ==
    IF valueOf(tokens, name) # undefined THEN valueOf(tokens, name)
    ELSE IF tokens # <<>> THEN tokens[1].value
    ELSE undefined

\* direct match, then the first key equal after normalisation, then the
\* first key that ends with the last hyphen-delimited segment of the name
findMatchingToken(name, tokens) ==
    LET byNormal == firstEntry({i \in 1..Len(tokens) :
                        normalizedName(tokens[i].name) = normalizedName(name)})
        bySuffix == firstEntry({i \in 1..Len(tokens) :
                        endsWith(toLowerCase(tokens[i].name), baseName(name))})
    IN IF valueOf(tokens, name) # undefined THEN valueOf(tokens, name)
       ELSE IF byNormal # 0 THEN tokens[byNormal].value
       ELSE IF baseName(name) # <<>> /\ bySuffix # 0 THEN tokens[bySuffix].value
       ELSE undefined

\* String.prototype.toUpperCase on the characters of a colour
toUpperCase(s) ==
    [i \in 1..Len(s) |-> IF s[i] = "f" THEN "F" ELSE s[i]]

\* normalizeColorValue: '#rgb' is expanded, a hex colour is upper-cased; no
\* value here is an rgb() expression, so what is left is the trimmed value
normalizeColorValue(value) ==
    LET trimmed == trim(value)
    IN IF trimmed # <<>> /\ trimmed[1] = "#"
       THEN IF Len(trimmed) = 4
            THEN toUpperCase(<<"#", trimmed[2], trimmed[2], trimmed[3], trimmed[3],
                               trimmed[4], trimmed[4]>>)
            ELSE toUpperCase(trimmed)
       ELSE trimmed

\* the digits of a numeral
digit(c) ==
    CASE c = "0" -> 0 [] c = "1" -> 1 [] c = "2" -> 2 [] c = "3" -> 3 [] c = "4" -> 4
      [] c = "5" -> 5 [] c = "6" -> 6 [] c = "7" -> 7 [] c = "8" -> 8 [] c = "9" -> 9

Digits == {"0", "1", "2", "3", "4", "5", "6", "7", "8", "9"}

\* the value of a hexadecimal digit
hexDigit(c) ==
    CASE c \in Digits -> digit(c)
      [] c = "A" -> 10 [] c = "B" -> 11 [] c = "C" -> 12 [] c = "D" -> 13
      [] c = "E" -> 14 [] c = "F" -> 15 [] c = "f" -> 15

\* hexToRgb; <<>> stands for null
hexToRgb(hex) ==
    LET cleaned == IF hex # <<>> /\ hex[1] = "#" THEN Tail(hex) ELSE hex
    IN IF Len(cleaned) # 6 THEN <<>>
       ELSE [c \in 1..3 |-> 16 * hexDigit(cleaned[2 * c - 1]) + hexDigit(cleaned[2 * c])]

\* the square of the Euclidean distance in RGB space
squaredDistance(rgb1, rgb2) ==
    (rgb1[1] - rgb2[1]) * (rgb1[1] - rgb2[1]) + (rgb1[2] - rgb2[2]) * (rgb1[2] - rgb2[2])
        + (rgb1[3] - rgb2[3]) * (rgb1[3] - rgb2[3])

\* variant: the squared distance is compared without taking the root
colorDifferenceAbove_NoRoot(hex1, hex2, percent) ==
    IF hexToRgb(hex1) = <<>> \/ hexToRgb(hex2) = <<>> THEN 100 > percent
    ELSE squaredDistance(hexToRgb(hex1), hexToRgb(hex2)) * 100 > percent * 3 * 255 * 255

\* calculateColorDifference(hex1, hex2) > percent, where the difference is
\* sqrt(d2) / sqrt(3 * 255 * 255) * 100, and 100 when a colour is null
colorDifferenceAbove(hex1, hex2, percent) ==
    IF hexToRgb(hex1) = <<>> \/ hexToRgb(hex2) = <<>> THEN 100 > percent
    ELSE squaredDistance(hexToRgb(hex1), hexToRgb(hex2)) * 10000
            > percent * percent * 3 * 255 * 255

Discrepancy(type, name, expected, actual, severity) ==
    [type |-> type, tokenName |-> name, expectedValue |-> expected,
     actualValue |-> actual, severity |-> severity]

NOT_FOUND == <<"NOT_FOUND">>

NoComparison == [matching |-> 0, mismatched |-> 0, missing |-> 0, discrepancies |-> <<>>]

\* one iteration of the loop of compareColors
colorStep(acc, entry, cssColors, tolerance) ==
    LET cssValue == findMatchingToken(entry.name, cssColors)
        normalizedDesign == normalizeColorValue(entry.value)
        normalizedCSS == normalizeColorValue(cssValue)
    IN IF falsy(cssValue)
       THEN [acc EXCEPT !.missing = @ + 1,
                        !.discrepancies = Append(@, Discrepancy("color", entry.name,
                                                  entry.value, NOT_FOUND, "warning"))]
       ELSE IF normalizedDesign = normalizedCSS
               \/ ~colorDifferenceAbove(normalizedDesign, normalizedCSS, tolerance)
       THEN [acc EXCEPT !.matching = @ + 1]
       ELSE [acc EXCEPT !.mismatched = @ + 1,
                        !.discrepancies = Append(@, Discrepancy("color", entry.name,
                            entry.value, cssValue,
                            IF colorDifferenceAbove(normalizedDesign, normalizedCSS, 20)
                            THEN "error" ELSE "warning"))]

NaN == [kind |-> "NaN", px |-> 0, err |-> 0]

null == [kind |-> "null", px |-> 0, err |-> 0]

RECURSIVE pow2(_)
pow2(n) == IF n = 0 THEN 1 ELSE 2 * pow2(n - 1)

\* the binary exponent of a number n >= 1: floor(log2(n))
RECURSIVE exponentOf(_)
exponentOf(n) == IF n < 2 THEN 0 ELSE 1 + exponentOf(n \div 2)

\* A number is a double: the one nearest to the decimal numeral.  For a
\* numeral of `tenths` tenths, below 64, the double is tenths/10 + e, and
\* roundingError is e in units of 2^-56 / 10.  With s - 4 the binary exponent
\* of the value, the 53-bit significand is the integer nearest to
\* tenths * 2^(56-s) / 10, whose remainder is fixed by the last digit of
\* tenths and by 2^(56-s) mod 10, which cycles through 2, 4, 8, 6.
roundingError(tenths) ==
    IF tenths = 0 THEN 0
    ELSE LET s == exponentOf((16 * tenths) \div 10)
             p == CASE (56 - s) % 4 = 1 -> 2 [] (56 - s) % 4 = 2 -> 4
                    [] (56 - s) % 4 = 3 -> 8 [] (56 - s) % 4 = 0 -> 6
             r == ((tenths % 10) * p) % 10
         IN IF r < 5 THEN (0 - r) * pow2(s) ELSE (10 - r) * pow2(s)

\* parseFloat of a numeral of digits and dots, with at most one digit after
\* the first dot: NaN when no digit comes first or straight after that dot.
\* px is the decimal value in tenths of a pixel and err the rounding error
\* of the double; the multiplication by 16 is exact
parseFloat(numeral, scale) ==
    LET dots  == {i \in 1..Len(numeral) : numeral[i] = "."}
        point == IF dots = {} THEN 0 ELSE CHOOSE i \in dots : \A j \in dots : i <= j
        whole == IF point = 0 THEN numeral ELSE SubSeq(numeral, 1, point - 1)
        frac  == IF point = 0 \/ point = Len(numeral) \/ numeral[point + 1] = "."
                 THEN <<>> ELSE <<numeral[point + 1]>>
        tenths == 10 * parseInt10([i \in 1..Len(whole) |-> digit(whole[i])])
                     + (IF frac = <<>> THEN 0 ELSE digit(frac[1]))
    IN IF whole = <<>> /\ frac = <<>> THEN NaN
       ELSE [kind |-> "number", px |-> scale * tenths,
             err |-> scale * roundingError(tenths)]

\* parseSpacingValue, in tenths of a pixel: px, rem and em (16px), a plain
\* number, else null
parseSpacingValue(value) ==
    LET trimmed == trim(value)
        last == IF trimmed = <<>> THEN "" ELSE trimmed[Len(trimmed)]
        front == IF trimmed = <<>> THEN <<>> ELSE SubSeq(trimmed, 1, Len(trimmed) - 1)
        numeral(t) == t # <<>> /\ \A i \in 1..Len(t) : t[i] \in Digits \cup {"."}
    IN IF last = "px" /\ numeral(front) THEN parseFloat(front, 1)
       ELSE IF last \in {"rem", "em"} /\ numeral(front) THEN parseFloat(front, 16)
       ELSE IF numeral(trimmed) THEN parseFloat(trimmed, 1)
       ELSE null

\* variant: the difference of the decimal values, without rounding
spacingDifferenceAbove_Decimal(designPx, cssPx, px) ==
    /\ designPx # NaN /\ cssPx # NaN
    /\ (IF designPx.px >= cssPx.px THEN designPx.px - cssPx.px ELSE cssPx.px - designPx.px)
          > 10 * px

\* Math.abs(designPx - cssPx) > px pixels; every comparison with NaN is false.
\* The difference of the two doubles is rounded to a double again, and that
\* one is above the integer px exactly when the difference is more than half
\* a unit in the last place above px, which is 10 * 2^(3 + exponent of px)
\* units of 2^-56 / 10.
spacingDifferenceAbove(designPx, cssPx, px) ==
    LET decimal == IF designPx.px >= cssPx.px THEN designPx.px - cssPx.px
                   ELSE cssPx.px - designPx.px
        error == IF designPx.px > cssPx.px THEN designPx.err - cssPx.err
                 ELSE IF designPx.px < cssPx.px THEN cssPx.err - designPx.err
                 ELSE IF designPx.err >= cssPx.err THEN designPx.err - cssPx.err
                 ELSE cssPx.err - designPx.err
    IN /\ designPx # NaN /\ cssPx # NaN
       /\ IF decimal = 10 * px THEN error > 10 * pow2(3 + exponentOf(px))
          ELSE decimal > 10 * px

\* diff <= tolerance
spacingWithin(designPx, cssPx, tolerance) ==
    /\ designPx # NaN /\ cssPx # NaN
    /\ ~spacingDifferenceAbove(designPx, cssPx, tolerance)

\* one iteration of the loop of compareSpacing
spacingStep(acc, entry, cssSpacing, tolerance, type) ==
    LET cssValue == findMatchingToken(entry.name, cssSpacing)
        designPx == parseSpacingValue(entry.value)
        cssPx == parseSpacingValue(cssValue)
    IN IF falsy(cssValue)
       THEN [acc EXCEPT !.missing = @ + 1,
                        !.discrepancies = Append(@, Discrepancy(type, entry.name,
                                                  entry.value, NOT_FOUND, "warning"))]
       ELSE IF designPx = null \/ cssPx = null
       THEN IF entry.value = cssValue
            THEN [acc EXCEPT !.matching = @ + 1]
            ELSE [acc EXCEPT !.mismatched = @ + 1,
                             !.discrepancies = Append(@, Discrepancy(type, entry.name,
                                                       entry.value, cssValue, "warning"))]
       ELSE IF spacingWithin(designPx, cssPx, tolerance)
       THEN [acc EXCEPT !.matching = @ + 1]
       ELSE [acc EXCEPT !.mismatched = @ + 1,
                        !.discrepancies = Append(@, Discrepancy(type, entry.name,
                            entry.value, cssValue,
                            IF spacingDifferenceAbove(designPx, cssPx, 8)
                            THEN "error" ELSE "warning"))]

RECURSIVE compareColorsFrom(_, _, _, _)
compareColorsFrom(acc, designColors, cssColors, tolerance) ==
    IF designColors = <<>> THEN acc
    ELSE compareColorsFrom(colorStep(acc, Head(designColors), cssColors, tolerance),
                           Tail(designColors), cssColors, tolerance)

compareColors(designColors, cssColors, tolerance) ==
    compareColorsFrom(NoComparison, designColors, cssColors, tolerance)

RECURSIVE compareSpacingFrom(_, _, _, _, _)
compareSpacingFrom(acc, designSpacing, cssSpacing, tolerance, type) ==
    IF designSpacing = <<>> THEN acc
    ELSE compareSpacingFrom(spacingStep(acc, Head(designSpacing), cssSpacing, tolerance, type),
                            Tail(designSpacing), cssSpacing, tolerance, type)

compareSpacing(designSpacing, cssSpacing, tolerance, type) ==
    compareSpacingFrom(NoComparison, designSpacing, cssSpacing, tolerance, type)

\* compareDesignTokens(designTokens, cssTokens) with the default options
compareAll(designTokens, cssTokens) ==
    LET colorResult == compareColors(designTokens.colors, cssTokens.colors, colorTolerance)
        spacingResult == compareSpacing(designTokens.spacing, cssTokens.spacing,
                                        spacingTolerance, "spacing")
        radiusResult == compareSpacing(designTokens.borderRadius, cssTokens.borderRadius,
                                       spacingTolerance, "borderRadius")
        totalChecked == Len(designTokens.colors) + Len(designTokens.spacing)
                           + Len(designTokens.borderRadius)
        matchingCount == colorResult.matching + spacingResult.matching + radiusResult.matching
    IN [verified |-> compareDesignTokens(totalChecked, matchingCount).verified,
        matchPercentage |-> matchPercentage(totalChecked, matchingCount),
        totalChecked |-> totalChecked,
        matchingCount |-> matchingCount,
        mismatchedCount |-> colorResult.mismatched + spacingResult.mismatched
                               + radiusResult.mismatched,
        missingInCSSCount |-> colorResult.missing + spacingResult.missing
                                 + radiusResult.missing,
        discrepancies |-> colorResult.discrepancies \o spacingResult.discrepancies
                             \o radiusResult.discrepancies]

TokenCategories == {"colors", "spacing", "borderRadius"}

\* a token set with one category filled
TokenSet(category, tokens) ==
    [colors |-> IF category = "colors" THEN tokens ELSE <<>>,
     spacing |-> IF category = "spacing" THEN tokens ELSE <<>>,
     borderRadius |-> IF category = "borderRadius" THEN tokens ELSE <<>>]

NoComparisonResult ==
    [verified |-> FALSE, matchPercentage |-> 0, totalChecked |-> 0, matchingCount |-> 0,
     mismatchedCount |-> 0, missingInCSSCount |-> 0, discrepancies |-> <<>>]

\* the values of the tokens of a category
ValuesOf(category) == IF category = "colors" THEN ColorValues ELSE SpacingValues

TokenInit ==
    /\ queue = createDefaultQueue
    /\ mail = [t \in MessageTargets |-> EmptyMessageFile]
    /\ status = createDefaultStatus
    /\ config = [maxTasks |-> 1, continuous |-> FALSE]
    /\ sched = StoppedSched
    /\ \E category \in TokenCategories :
       \E design \in TokenMaps(ValuesOf(category)), css \in TokenMaps(ValuesOf(category)) :
          run = [pc |-> "input", designTokens |-> TokenSet(category, design),
                 cssTokens |-> TokenSet(category, css), result |-> NoComparisonResult]
    /\ activeProcesses = {}
    /\ hist = NoHist

T_Compare ==
    /\ run.pc = "input"
    /\ run' = [run EXCEPT !.pc = "compared",
                          !.result = compareAll(run.designTokens, run.cssTokens)]
    /\ UNCHANGED <<queue, mail, status, config, sched, activeProcesses, hist>>

TokenNext == T_Compare

TokenSpec == TokenInit /\ [][TokenNext]_vars

(***************************************************************************)
(* compareDesignTokens under the caller's options: the aggregate of a      *)
(* comparison that checked totalChecked tokens and matched matchingCount.  *)
(*   run : the counts, the options and the aggregate                       *)
(***************************************************************************)
MaxChecked == 6

\* the values a caller sets minMatchPercentage to
MinMatchValues == {0, 1, 50, 90, 100}

\* options: has is FALSE when the caller leaves minMatchPercentage out
ComparisonOptions ==
    {[has |-> FALSE, minMatchPercentage |-> 0]}
    \cup [has : {TRUE}, minMatchPercentage : MinMatchValues]

DEFAULT_OPTIONS == [has |-> TRUE, minMatchPercentage |-> 90]

\* { ...DEFAULT_OPTIONS, ...options }
mergeOptions(options) == IF options.has THEN options ELSE DEFAULT_OPTIONS

\* variant: the configured threshold is used as it is
threshold_AsConfigured(opts) == opts.minMatchPercentage

\* opts.minMatchPercentage || 90: a threshold of 0 is falsy
threshold(opts) ==
    IF opts.minMatchPercentage = 0 THEN 90 ELSE opts.minMatchPercentage

\* the aggregate of compareDesignTokens(designTokens, cssTokens, options)
aggregate(totalChecked, matchingCount, options) ==
    LET opts == mergeOptions(options)
    IN [verified |-> matchPercentage(totalChecked, matchingCount) >= threshold(opts),
        matchPercentage |-> matchPercentage(totalChecked, matchingCount),
        totalChecked |-> totalChecked,
        matchingCount |-> matchingCount]

NoAggregate == [verified |-> FALSE, matchPercentage |-> 0, totalChecked |-> 0,
                matchingCount |-> 0]

OptionsInit ==
    /\ queue = createDefaultQueue
    /\ mail = [t \in MessageTargets |-> EmptyMessageFile]
    /\ status = createDefaultStatus
    /\ config = [maxTasks |-> 1, continuous |-> FALSE]
    /\ sched = StoppedSched
    /\ \E totalChecked \in 0..MaxChecked, options \in ComparisonOptions :
       \E matchingCount \in 0..totalChecked :
          run = [pc |-> "input", totalChecked |-> totalChecked,
                 matchingCount |-> matchingCount, options |-> options,
                 result |-> NoAggregate]
    /\ activeProcesses = {}
    /\ hist = NoHist

O_Compare ==
    /\ run.pc = "input"
    /\ run' = [run EXCEPT !.pc = "compared",
                          !.result = aggregate(run.totalChecked, run.matchingCount,
                                               run.options)]
    /\ UNCHANGED <<queue, mail, status, config, sched, activeProcesses, hist>>

OptionsNext == O_Compare

OptionsSpec == OptionsInit /\ [][OptionsNext]_vars

(***************************************************************************)
(* compareDesignTokens on one expected token and the extracted token of    *)
(* the same name, over 6-digit hex colours and over lengths with a unit.   *)
(***************************************************************************)
PairName == <<"primary">>

\* the two hex digits of a colour channel
Channels == {<<"0", "0">>, <<"0", "5">>, <<"0", "C">>, <<"0", "D">>,
             <<"3", "3">>, <<"3", "4">>, <<"F", "F">>}

HexColors == {<<"#">> \o r \o g \o b : r \in Channels, g \in Channels, b \in Channels}

Wholes == {<<"0">>, <<"1">>, <<"2">>, <<"4">>, <<"1", "0">>, <<"1", "6">>,
           <<"2", "0">>, <<"2", "4">>}

Fractions == {<<>>, <<".", "1">>, <<".", "4">>, <<".", "6">>}

Units == {<<"px">>, <<"rem">>, <<"em">>, <<>>}

Lengths == {w \o f \o u : w \in Wholes, f \in Fractions, u \in Units}

PairValuesOf(category) == IF category = "colors" THEN HexColors ELSE Lengths

PairInit ==
    /\ queue = createDefaultQueue
    /\ mail = [t \in MessageTargets |-> EmptyMessageFile]
    /\ status = createDefaultStatus
    /\ config = [maxTasks |-> 1, continuous |-> FALSE]
    /\ sched = StoppedSched
    /\ \E category \in TokenCategories :
       \E designValue \in PairValuesOf(category), cssValue \in PairValuesOf(category) :
          run = [pc |-> "input",
                 designTokens |-> TokenSet(category, <<[name |-> PairName,
                                                        value |-> designValue]>>),
                 cssTokens |-> TokenSet(category, <<[name |-> PairName,
                                                     value |-> cssValue]>>),
                 result |-> NoComparisonResult]
    /\ activeProcesses = {}
    /\ hist = NoHist

PairSpec == PairInit /\ [][TokenNext]_vars

(***************************************************************************)
(* Properties                                                              *)
(***************************************************************************)
IsPrefix(s, t) == Len(s) <= Len(t) /\ \A i \in 1..Len(s) : s[i] = t[i]

InRun == run.pc # "idle"

Ended == run.pc \in {"finally", "returned"}

RunTask == getTask(queue, run.task)

\* C1: when the completion report found for the task has buildResult.status
\* 'failed', the review agent is not invoked in that run, and the run ends
\* with the task rejected for 'Build verification failed', still active.
C1_BuildFailedSkipsReview ==
    (InRun /\ run.report # NoMsg /\ run.report.build = "failed") =>
        /\ "review" \notin Range(hist.invoked)
        /\ "review" \notin activeProcesses
        /\ run.pc \in {"decided", "finally", "returned"}
        /\ Ended =>
              /\ InActive(queue, run.task)
              /\ RunTask.status = "rejected"
              /\ RunTask.rejectionReason = "Build verification failed"
              /\ run.result = Fail("review", "Build verification failed")

C1_Witness ==
    /\ run.pc = "returned"
    /\ run.report.build = "failed"
    /\ RunTask.status = "rejected"

\* C2: a task's status changes only along pending -> in_progress ->
\* awaiting_review -> completed | rejected, and rejected -> pending by a
\* reset; a new task starts as pending.
StatusEdges ==
    {<<"absent", "pending">>, <<"pending", "in_progress">>,
     <<"in_progress", "awaiting_review">>, <<"awaiting_review", "completed">>,
     <<"awaiting_review", "rejected">>, <<"rejected", "pending">>}

StatusOf(q, taskId) == getTask(q, taskId).status

C2_StatusEdges ==
    [][\A id \in TaskIds :
          StatusOf(queue, id) # StatusOf(queue', id) =>
              <<StatusOf(queue, id), StatusOf(queue', id)>> \in StatusEdges]_vars

C2_Witness ==
    /\ \E id \in TaskIds : StatusOf(queue, id) = "completed"
    /\ \E id \in TaskIds : StatusOf(queue, id) = "rejected"

\* C3: whenever processTaskV2 returns, also after an exception, the current
\* pointer is null and each of the four message files holds an empty list.
C3_CleanupOnReturn ==
    run.pc = "returned" =>
        /\ queue.current = NoTask
        /\ \A t \in MessageTargets : mail[t] = EmptyMessageFile

C3_Witness ==
    /\ run.pc = "returned"
    /\ hist.threw

\* C4: if an agent invocation of a run returns non-success, the run stops at
\* that phase: no later phase runs and the task is not completed in the run.
C4_FailedInvocationStopsRun ==
    (InRun /\ hist.failed # {}) =>
        /\ hist.invoked[Len(hist.invoked)] \in hist.failed
        /\ run.pc \notin {"decided", "complete"} \/ ~run.reviewResult.approved
        /\ ~run.result.success
        /\ ~InCompleted(queue, run.task)

\* C4 for the four producing agents alone
C4_FailedProducerStopsRun ==
    (InRun /\ hist.failed \cap Producers # {}) =>
        /\ hist.invoked[Len(hist.invoked)] \in hist.failed
        /\ run.pc \in {"planner_done", "designer_done", "tech_lead_done", "developer_done",
                       "finally", "returned"}
        /\ ~run.result.success
        /\ ~InCompleted(queue, run.task)

\* C5: a run that aborts at the planner, designer, tech-lead or developer
\* phase leaves the task active and in_progress, without a rejection reason.
C5_AbortLeavesInProgress ==
    (Ended /\ run.result.phase \in {"planner", "designer", "tech_lead", "developer"}) =>
        /\ InActive(queue, run.task)
        /\ ~InCompleted(queue, run.task)
        /\ RunTask.status = "in_progress"
        /\ RunTask.rejectionReason = NoReason

C5_Witness ==
    /\ run.pc = "returned"
    /\ run.result = Fail("developer", "No instructions found from Team Lead")
    /\ RunTask.status = "in_progress"

\* C6: the agents of a run are invoked in the order planner, designer, tech
\* lead, developer, review, each after the previous one has returned; the
\* designer only after a planning_document for the task was read back from
\* toDesigner, the tech lead only after a design_specification for the task
\* was read back from toTechLead.
C6_PhaseOrder ==
    InRun =>
        /\ IsPrefix(hist.invoked, PhaseOrder)
        /\ activeProcesses \subseteq
              (IF hist.invoked = <<>> THEN {} ELSE {hist.invoked[Len(hist.invoked)]})
        /\ Len(hist.invoked) >= 2 =>
              /\ run.planningDoc.type = "planning_document"
              /\ run.planningDoc.taskId = run.task
              /\ run.pc # "returned" => run.planningDoc \in Range(mail["toDesigner"].messages)
        /\ Len(hist.invoked) >= 3 =>
              /\ run.designSpec.type = "design_specification"
              /\ run.designSpec.taskId = run.task
              /\ run.pc # "returned" => run.designSpec \in Range(mail["toTechLead"].messages)

C6_Witness ==
    /\ hist.invoked = PhaseOrder
    /\ run.pc = "review_wait"

\* C7: when a producing agent is invoked its output file has just been
\* cleared, and every message a phase consumes was written during the
\* current run and carries the current task id, also when an earlier run
\* crashed and left its messages behind.
C7_NoStaleMessage ==
    /\ \A agent \in Producers :
          agent \in activeProcesses => mail[OutBox(agent)] = EmptyMessageFile
    /\ \A m \in hist.consumed : m.fresh /\ m.taskId = run.task

\* a stale message for the task of the run lies in a file while a later
\* phase has consumed a message of this run
C7_Witness ==
    /\ hist.consumed # {}
    /\ "designer" \in activeProcesses
    /\ \E t \in MessageTargets : \E i \in 1..Len(mail[t].messages) :
          /\ ~mail[t].messages[i].fresh
          /\ mail[t].messages[i].taskId = run.task

C9_VerificationErrorSwallowed ==
    (InRun /\ hist.verifyThrew) =>
        /\ run.verification.verified
        /\ run.verification.matchPercentage = 0
        /\ run.verification.discrepancies = 0
        /\ ~hist.threw
        /\ Ended => /\ RunTask.status = "completed"
                    /\ InCompleted(queue, run.task)
                    /\ run.result.success

C9_Witness ==
    /\ run.pc = "returned"
    /\ hist.verifyThrew
    /\ RunTask.status = "completed"

\* C10: queue.current is null or the id of a task in the active set whose
\* status is in_progress or awaiting_review.
C10_CurrentIsInFlight ==
    \/ queue.current = NoTask
    \/ /\ InActive(queue, queue.current)
       /\ getTask(queue, queue.current).status \in {"in_progress", "awaiting_review"}

\* C16: when the orchestrator stops in the middle of a task's run, the task
\* is left in the active list in a status the next start selects, that is
\* in_progress or pending.
C16_InterruptedTaskIsSelected ==
    [][(run.pc \notin {"idle", "returned"} /\ sched.pc # "stopped" /\ sched'.pc = "stopped") =>
          /\ InActive(queue', run.task)
          /\ getTask(queue', run.task).status \in {"in_progress", "pending"}
          /\ \E maxTasks \in 1..MaxBatch :
                run.task \in Range(tasksToProcess(queue', maxTasks))]_vars

\* LIMITS.maxConcurrentAgents
maxConcurrentAgents == 1

\* C18: at most one agent process is registered at any time, a run in
\* flight is the run of the task the task loop is at, no discovery agent is
\* live during a run, and a run starts only when the cleanup of the run
\* before it in the cycle has emptied the four message files.
C18_OneRunOneAgent ==
    /\ Cardinality(activeProcesses) <= maxConcurrentAgents
    /\ InRun =>
          /\ sched.pc = "tasks"
          /\ sched.idx <= Len(sched.batch)
          /\ run.task = sched.batch[sched.idx]
          /\ "discovery" \notin activeProcesses
    /\ (run.pc = "set_status" /\ sched.idx > 1) =>
          /\ \A t \in MessageTargets : mail[t] = EmptyMessageFile
          /\ queue.current = run.task

\* the second run of a cycle has an agent live
C18_Witness ==
    /\ sched.idx = 2
    /\ run.pc = "designer_wait"
    /\ activeProcesses = {"designer"}

\* in_progress tasks, then pending tasks, in the order of queue.tasks
Eligible(q) ==
    Ids(SelectSeq(q.tasks, LAMBDA t : t.status = "in_progress")
          \o SelectSeq(q.tasks, LAMBDA t : t.status = "pending"))

C20_FailureDoesNotStopCycle ==
    /\ [](sched.pc = "tasks" =>
             /\ Cardinality(Range(sched.ran)) = Len(sched.ran)
             /\ sched.completed + sched.failed
                   = Len(sched.ran) - (IF run.pc = "idle" THEN 0 ELSE 1))
    /\ [][/\ (run.pc = "returned" /\ run'.pc = "idle" /\ ~run.result.success
              /\ sched'.pc # "stopped") =>
                 /\ sched'.pc = "tasks"
                 /\ sched'.failed = sched.failed + 1
                 /\ sched'.completed = sched.completed
                 /\ sched'.idx = sched.idx + 1
                 /\ sched'.batch = sched.batch
          /\ (run.pc = "idle" /\ run'.pc = "set_status") =>
                 /\ run'.task = sched.batch[Len(sched.ran) + 1]
                 /\ run'.task \notin Range(sched.ran)]_vars

\* after a failed run the second task of the batch is in the pipeline
C20_Witness ==
    /\ sched.pc = "tasks"
    /\ sched.failed = 1
    /\ sched.ran = <<1, 2>>
    /\ run.pc = "planner_wait"
    /\ getTask(queue, 1).status = "rejected"

\* the step that ends the task loop of a cycle (updateCycleStats)
EndsCycle == sched.pc = "tasks" /\ sched'.pc \in {"loop", "finish"}

\* C21: at the end of every cycle that ran a batch, the lastCycle record
\* written to status.json has completed + failed = size of the batch,
\* completed = number of runs that returned success and remaining = number
\* of tasks that are pending at that moment, also when runs aborted or threw.
C21_CycleStats ==
    [][EndsCycle =>
          /\ status'.lastCycle.number = sched.cycle
          /\ status'.lastCycle.completed + status'.lastCycle.failed = Len(sched.batch)
          /\ status'.lastCycle.completed =
                 Cardinality({i \in 1..Len(sched.ok) : sched.ok[i]})
          /\ status'.lastCycle.remaining =
                 Cardinality({i \in 1..Len(queue'.tasks) : queue'.tasks[i].status = "pending"})]_vars

\* a cycle of two runs has ended, one completed and one failed
C21_Witness ==
    /\ sched.pc \in {"loop", "finish"}
    /\ sched.ok \in {<<TRUE, FALSE>>, <<FALSE, TRUE>>}
    /\ status.lastCycle.completed = 1
    /\ status.lastCycle.failed = 1

\* C22: whenever a cycle ends, by the continue check after a batch or by the
\* checks after a discovery, the scheduler stops exactly when continuous
\* mode is off and no task is pending; otherwise it goes on to a next cycle.
C22_StopsExactlyWhenDone ==
    [][(sched.pc \in {"tasks", "discovery"} /\ sched'.pc \in {"loop", "finish"}) =>
          (sched'.pc = "finish" <=>
              (~config.continuous /\ getPendingTasks(queue') = <<>>))]_vars

\* every agent of the run was invoked and succeeded, every phase found its
\* message for the task, the report's build is not failed and the output of
\* the review agent contains the approval marker
HappyRun ==
    /\ hist.invoked = PhaseOrder
    /\ hist.failed = {}
    /\ run.planningDoc # NoMsg /\ run.designSpec # NoMsg
    /\ run.report # NoMsg /\ run.report.build # "failed"
    /\ run.pc \in {"review_done", "decided", "complete", "finally", "returned"}
    /\ includesApprove(run.agentResult.output)

NoReportForTask ==
    /\ mail["toTeamLead"].valid
    /\ ~\E i \in 1..Len(mail["toTeamLead"].messages) :
            /\ mail["toTeamLead"].messages[i].type = "completion_report"
            /\ mail["toTeamLead"].messages[i].taskId = run.task

NoReportFound == [approved |-> FALSE, reason |-> "No completion report found"]

\* C24: if at review time the developer -> tech lead file holds no
\* completion_report for the task, the review agent is not invoked, and the
\* run ends with the task rejected for 'No completion report found', reported
\* as a failure of phase review.
C24_NoReportRejects ==
    /\ [][(run.pc = "review" /\ NoReportForTask /\ run' # run) =>
              /\ run'.pc = "decided"
              /\ run'.reviewResult = NoReportFound
              /\ activeProcesses' = activeProcesses
              /\ hist'.invoked = hist.invoked]_vars
    /\ []((InRun /\ run.reviewResult = NoReportFound) =>
              /\ "review" \notin Range(hist.invoked)
              /\ "review" \notin activeProcesses
              /\ run.pc \in {"decided", "finally", "returned"}
              /\ Ended =>
                    /\ InActive(queue, run.task)
                    /\ RunTask.status = "rejected"
                    /\ RunTask.rejectionReason = "No completion report found"
                    /\ run.result = Fail("review", "No completion report found"))

\* the developer succeeded and left a report that names another task
C24_Witness ==
    /\ run.pc = "finally"
    /\ run.reviewResult = NoReportFound
    /\ RunTask.status = "rejected"
    /\ \E i \in 1..Len(mail["toTeamLead"].messages) :
          /\ mail["toTeamLead"].messages[i].type = "completion_report"
          /\ mail["toTeamLead"].messages[i].taskId # run.task

PhaseNames == {"planner", "designer", "tech_lead", "developer", "review"}

\* C26: every unsuccessful result processTaskV2 returns names the phase at
\* which the run stopped and carries a non-empty error string, also when the
\* run stopped because of an exception.
C26_FailureNamesPhase ==
    (Ended /\ ~run.result.success) =>
        /\ run.result.phase \in PhaseNames
        /\ run.result.error # ""

\* C26 for the runs that no exception ended
C26_ReturnedFailureNamesPhase ==
    (Ended /\ ~run.result.success /\ ~hist.threw) =>
        /\ run.result.phase \in PhaseNames
        /\ run.result.error # ""

(***************************************************************************)
(* Properties of the shutdown (ShutdownSpec)                               *)
(***************************************************************************)
\* C17: when the process has exited after a signal, every agent process
\* that was registered when the signal came has been sent SIGTERM and the
\* status file says running = false.
C17_ShutdownPersistsNotRunning ==
    sched.pc = "exited" =>
        /\ hist.registered \subseteq hist.signalled
        /\ ~status.running

(***************************************************************************)
(* Properties of the review parse (ReviewSpec)                             *)
(***************************************************************************)
Decided == run.pc \in {"decided", "finally"}

HasApprove(text) == \E i \in 1..Len(text) : text[i] \in {"APPROVE", "approve"}

HasReject(text) == \E i \in 1..Len(text) : text[i] \in {"REJECT:", "reject:"}

\* the output is one line 'REJECT: <reason>' and nothing else: the marker,
\* blanks, then a reason that is at least one word and has no line break
IsRejectLine(text) ==
    /\ Len(text) >= 2
    /\ text[1] = "REJECT:"
    /\ \A i \in 2..Len(text) : text[i] \notin {"\n", "REJECT:", "reject:"}
    /\ \E i \in 2..Len(text) : text[i] # " "

\* the reason text of such a line
ReasonText(text) == trim(Tail(text))

\* the task of the run is active and rejected with this reason
RejectedWith(reason) ==
    /\ InActive(queue, run.task)
    /\ RunTask.status = "rejected"
    /\ RunTask.rejectionReason = reason

\* C25, first part: the decision is an approval exactly when the output
\* contains the approval marker in upper or lower case
C25_ApproveIffMarker ==
    Decided => (run.reviewResult.approved <=> HasApprove(run.output))

\* C25: the decision is an approval exactly when the output contains the
\* approval marker; an output that is only a 'REJECT: <reason>' line gets the
\* task rejected with that reason text; an output with neither marker gets
\* the task rejected with 'Review failed'.
C25_ReviewDecision ==
    /\ Decided => (run.reviewResult.approved <=> HasApprove(run.output))
    /\ (run.pc = "finally" /\ IsRejectLine(run.output)) =>
          RejectedWith(ReasonText(run.output))
    /\ (run.pc = "finally" /\ ~HasApprove(run.output) /\ ~HasReject(run.output)) =>
          RejectedWith(ReviewFailed)

(***************************************************************************)
(* Properties of one agent invocation (AgentSpec)                          *)
(***************************************************************************)
TimedOutResult(stdout) ==
    [success |-> FALSE, output |-> stdout, error |-> "Agent execution timed out",
     exitCode |-> -1]

\* C27: when the timeout fires before the child has closed, proc.kill is
\* called with SIGTERM and the invocation resolves with success = false and
\* 'Agent execution timed out' whatever exit code the child reports; no
\* invocation resolves as a success after its timeout fired; the promise is
\* settled when the child has closed and its value never changes afterwards.
C27_TimeoutResolvesAsFailure ==
    /\ [](run.timedOut =>
             /\ hist.kills = 1
             /\ run.settled => run.result = TimedOutResult(run.stdout))
    /\ []((run.closed \/ run.errored) <=> run.settled)
    /\ [][run.settled => (run'.settled /\ run'.result = run.result)]_vars

\* the timer fired, then the child reported exit code 0 and closed
C27_Witness ==
    /\ run.timedOut
    /\ run.code = 0
    /\ run.stdout = "APPROVE"
    /\ run.closed
    /\ run.result = TimedOutResult("APPROVE")

(***************************************************************************)
(* Properties of the token comparison (TokenSpec)                          *)
(***************************************************************************)
Compared == run.pc = "compared"

\* the entries of a token set, over its three categories
EntriesOf(tokens) == tokens.colors \o tokens.spacing \o tokens.borderRadius

\* a non-empty token set has been compared against itself
SelfCompared ==
    /\ Compared
    /\ run.cssTokens = run.designTokens
    /\ EntriesOf(run.designTokens) # <<>>

\* C28: comparing a non-empty token set against itself yields
\* matchPercentage = 100, verified = true and no discrepancy.
C28_SelfComparison ==
    SelfCompared =>
        /\ run.result.matchPercentage = 100
        /\ run.result.verified
        /\ run.result.discrepancies = <<>>

\* C28 for the token sets whose values are not empty and, where they are
\* lengths, have a numeral that parses
C28_SelfComparisonOfProperValues ==
    (SelfCompared /\ \A i \in 1..Len(EntriesOf(run.designTokens)) :
                        /\ EntriesOf(run.designTokens)[i].value # <<>>
                        /\ parseSpacingValue(EntriesOf(run.designTokens)[i].value) # NaN) =>
        /\ run.result.matchPercentage = 100
        /\ run.result.verified
        /\ run.result.discrepancies = <<>>

\* the same entries in every iteration order
OrdersOf(tokens) ==
    {[i \in 1..Len(tokens) |-> tokens[p[i]]] : p \in Permutations(1..Len(tokens))}

\* a token set with the entries of each category in every order
ReorderingsOf(tokenSet) ==
    {[colors |-> c, spacing |-> sp, borderRadius |-> b] :
        c \in OrdersOf(tokenSet.colors), sp \in OrdersOf(tokenSet.spacing),
        b \in OrdersOf(tokenSet.borderRadius)}

SameOutcome(r1, r2) ==
    /\ r1.matchPercentage = r2.matchPercentage
    /\ Range(r1.discrepancies) = Range(r2.discrepancies)

\* C29: the result of a comparison does not depend on the key order of the
\* expected or of the extracted tokens: every reordering of either map gives
\* the same matchPercentage and the same set of discrepancies.
C29_OrderIndependent ==
    Compared =>
        \A design \in ReorderingsOf(run.designTokens), css \in ReorderingsOf(run.cssTokens) :
            SameOutcome(compareAll(design, css), run.result)

\* C29 for the order of the expected tokens alone
C29_ExpectedOrderIndependent ==
    Compared =>
        \A design \in ReorderingsOf(run.designTokens) :
            SameOutcome(compareAll(design, run.cssTokens), run.result)

\* no extracted token matches the name: not by the exact name, not by the
\* name without case and separators, not by the last segment as a suffix
Unmatched(name, tokens) ==
    \A i \in 1..Len(tokens) :
        /\ tokens[i].name # name
        /\ normalizedName(tokens[i].name) # normalizedName(name)
        /\ ~endsWith(toLowerCase(tokens[i].name), baseName(name))

\* the discrepancies recorded for a token name
DiscrepanciesOf(result, name) ==
    {i \in 1..Len(result.discrepancies) : result.discrepancies[i].tokenName = name}

NotFoundCount(result) ==
    Cardinality({i \in 1..Len(result.discrepancies) :
                    result.discrepancies[i].actualValue = NOT_FOUND})

\* C30: an expected token that no extracted token matches produces exactly
\* one discrepancy, with actual value NOT_FOUND and severity warning; it is
\* counted once in totalChecked and in the missing count and not as matching.
C30_MissingToken ==
    Compared =>
        LET expected == EntriesOf(run.designTokens)
            extracted == EntriesOf(run.cssTokens)
            unmatched == {i \in 1..Len(expected) : Unmatched(expected[i].name, extracted)}
        IN /\ \A i \in unmatched :
                 /\ Cardinality(DiscrepanciesOf(run.result, expected[i].name)) = 1
                 /\ \A d \in DiscrepanciesOf(run.result, expected[i].name) :
                       /\ run.result.discrepancies[d].actualValue = NOT_FOUND
                       /\ run.result.discrepancies[d].severity = "warning"
                       /\ run.result.discrepancies[d].expectedValue = expected[i].value
           /\ run.result.totalChecked = Len(expected)
           /\ run.result.missingInCSSCount = NotFoundCount(run.result)
           /\ run.result.missingInCSSCount >= Cardinality(unmatched)
           /\ run.result.matchingCount + run.result.mismatchedCount
                 + run.result.missingInCSSCount = run.result.totalChecked
           /\ run.result.matchingCount <= Len(expected) - Cardinality(unmatched)

\* of two expected tokens one has no match and the other one matches
C30_Witness ==
    /\ Compared
    /\ Len(run.designTokens.spacing) = 2
    /\ Unmatched(run.designTokens.spacing[1].name, run.cssTokens.spacing)
    /\ run.cssTokens.spacing # <<>>
    /\ run.result.totalChecked = 2
    /\ run.result.missingInCSSCount = 1
    /\ run.result.matchingCount = 1
    /\ run.result.matchPercentage = 50

(***************************************************************************)
(* Properties of the Task Store (StoreSpec)                                *)
(***************************************************************************)
ActiveIds(q) == Range(Ids(q.tasks))

CompletedIds(q) == Range(Ids(q.completed))

\* the ids a step appends to the active list
Added == SubSeq(Ids(queue'.tasks), Len(queue.tasks) + 1, Len(queue'.tasks))

\* C11: every id handed out is in exactly one of the two lists, once, and
\* an id in the completed list stays there and does not return to the
\* active list.
C11_OneListPerId ==
    /\ [](/\ Cardinality(AllIds(queue)) = Len(queue.tasks) + Len(queue.completed)
          /\ AllIds(queue) = Range(hist.issued))
    /\ [][\A id \in CompletedIds(queue) :
             id \in CompletedIds(queue') /\ id \notin ActiveIds(queue')]_vars

C11_Witness ==
    /\ \E i \in 1..Len(queue.completed) : queue.completed[i].id = 1
    /\ \E i \in 1..Len(queue.tasks) : queue.tasks[i].id = 2
    /\ hist.threw /\ hist.id = 1

\* C12: each id an add or addTasks call generates differs from every id in
\* either list and from the ids generated before it in the same call, and
\* is not below the id generated last, also after tasks were completed.
C12_FreshIncreasingIds ==
    [][\A i \in 1..Len(Added) :
          /\ Added[i] \notin AllIds(queue)
          /\ \A j \in 1..(i - 1) : Added[j] # Added[i] /\ Added[j] <= Added[i]
          /\ hist.issued # <<>> => hist.issued[Len(hist.issued)] <= Added[i]]_vars

\* task-1000 was generated after task-999 had moved to the completed list
C12_Witness ==
    /\ InCompleted(queue, 999)
    /\ InActive(queue, 1000)
    /\ hist.issued = <<998, 999, 1000>>

\* C13: a call that names an id outside the active list throws and leaves
\* the queue as it was; no call changes or removes an entry of the
\* completed list.
C13_NotFoundLeavesQueue ==
    /\ [](hist.threw => ~InActive(queue, hist.id))
    /\ [][/\ hist'.threw => queue' = queue
          /\ Len(queue.completed) <= Len(queue'.completed)
          /\ \A i \in 1..Len(queue.completed) : queue'.completed[i] = queue.completed[i]]_vars

C13_Witness ==
    /\ hist.threw
    /\ InCompleted(queue, hist.id)
    /\ hist.id = 999
    /\ queue.tasks # <<>>

\* C14: a task has a rejection reason only if its status is rejected.
C14_ReasonOnlyWhenRejected ==
    /\ \A i \in 1..Len(queue.tasks) :
          queue.tasks[i].rejectionReason # NoReason => queue.tasks[i].status = "rejected"
    /\ \A i \in 1..Len(queue.completed) :
          queue.completed[i].rejectionReason # NoReason
              => queue.completed[i].status = "rejected"

\* C15: getNextPendingTask returns undefined when no task is pending, and
\* otherwise a pending task that no pending task beats in priority and that
\* no pending task of its priority precedes in creation time.
C15_NextPending ==
    LET r == getNextPendingTask(queue)
        P == {i \in 1..Len(queue.tasks) : queue.tasks[i].status = "pending"}
    IN IF P = {} THEN r = undefinedTask
       ELSE \E i \in P :
               /\ r = queue.tasks[i]
               /\ \A j \in P :
                     /\ priorityOrder(queue.tasks[j].priority) <= priorityOrder(r.priority)
                     /\ queue.tasks[j].priority = r.priority
                           => r.createdAt <= queue.tasks[j].createdAt

\* the second of two pending tasks is returned: it has the higher priority
C15_Witness ==
    /\ Len(queue.tasks) = 2
    /\ queue.tasks[1].status = "pending" /\ queue.tasks[1].priority = "medium"
    /\ queue.tasks[2].status = "pending" /\ queue.tasks[2].priority = "high"
    /\ queue.tasks[1].createdAt < queue.tasks[2].createdAt
    /\ getNextPendingTask(queue) = queue.tasks[2]

(***************************************************************************)
(* Properties of the aggregate under options (OptionsSpec)                 *)
(***************************************************************************)
Aggregated == run.pc = "compared"

\* the threshold the caller configured, 90 when none was given
Configured == IF run.options.has THEN run.options.minMatchPercentage ELSE 90

\* round(100 * matchingCount / totalChecked): the integer nearest to the
\* quotient, the upper one at a tie
IsRounded(p, matching, total) ==
    /\ 2 * total * p <= 200 * matching + total
    /\ 200 * matching + total < 2 * total * (p + 1)

\* C31: for every comparison, matchPercentage is round(100 * matchingCount /
\* totalChecked), or 100 when nothing was checked, so it lies in 0..100, and
\* verified holds exactly when matchPercentage is at least the configured
\* minMatchPercentage (90 when none is configured), for every configured
\* value in 0..100.
C31_VerifiedIffAboveConfigured ==
    Aggregated =>
        /\ IF run.result.totalChecked = 0 THEN run.result.matchPercentage = 100
           ELSE IsRounded(run.result.matchPercentage, run.result.matchingCount,
                          run.result.totalChecked)
        /\ run.result.matchPercentage \in 0..100
        /\ run.result.verified <=> run.result.matchPercentage >= Configured

\* the same with the configured value in 1..100 or left out
C31_VerifiedIffAbovePositive ==
    Aggregated /\ Configured # 0 =>
        /\ IF run.result.totalChecked = 0 THEN run.result.matchPercentage = 100
           ELSE IsRounded(run.result.matchPercentage, run.result.matchingCount,
                          run.result.totalChecked)
        /\ run.result.matchPercentage \in 0..100
        /\ run.result.verified <=> run.result.matchPercentage >= Configured

\* totalChecked is the number of expected tokens of the three categories
C31_TotalIsExpectedTokens ==
    run.pc = "compared" /\ "designTokens" \in DOMAIN run =>
        run.result.totalChecked = Len(run.designTokens.colors)
                                     + Len(run.designTokens.spacing)
                                     + Len(run.designTokens.borderRadius)

(***************************************************************************)
(* Properties of the comparison of one pair of tokens (PairSpec)           *)
(***************************************************************************)
\* the expected and the extracted value of the compared pair
DesignValue == EntriesOf(run.designTokens)[1].value
CssValue == EntriesOf(run.cssTokens)[1].value

ColorPair == Compared /\ run.designTokens.colors # <<>>

LengthPair == Compared /\ run.designTokens.colors = <<>>

\* the square of the RGB distance of the pair; the largest one is 3 * 255^2
PairDistance2 == squaredDistance(hexToRgb(DesignValue), hexToRgb(CssValue))

IsMatch ==
    /\ run.result.matchingCount = 1
    /\ run.result.mismatchedCount = 0
    /\ run.result.discrepancies = <<>>

IsDiscrepancy(severity) ==
    /\ run.result.matchingCount = 0
    /\ run.result.mismatchedCount = 1
    /\ Len(run.result.discrepancies) = 1
    /\ run.result.discrepancies[1].severity = severity

\* C32: two matched 6-digit hex colours are a match when they are equal or
\* their RGB distance is at most 5% of the largest distance (d^2 * 100^2 <=
\* 5^2 * 3 * 255^2); otherwise they are a discrepancy, of severity error
\* when the distance is above 20% and warning otherwise.
C32_ColorPair ==
    ColorPair =>
        IF DesignValue = CssValue \/ PairDistance2 * 10000 <= 25 * 3 * 255 * 255
        THEN IsMatch
        ELSE IF PairDistance2 * 10000 > 400 * 3 * 255 * 255
             THEN IsDiscrepancy("error")
             ELSE IsDiscrepancy("warning")

\* #000000 against #050505 has been compared and is a match
C32_Witness ==
    /\ ColorPair
    /\ DesignValue = <<"#", "0", "0", "0", "0", "0", "0">>
    /\ CssValue = <<"#", "0", "5", "0", "5", "0", "5">>
    /\ IsMatch

\* the decimal value of a length in tenths of a pixel
DecimalOf(value) == parseSpacingValue(value).px

\* the difference of the decimal values of the pair, in tenths of a pixel
PairDifference ==
    IF DecimalOf(DesignValue) >= DecimalOf(CssValue)
    THEN DecimalOf(DesignValue) - DecimalOf(CssValue)
    ELSE DecimalOf(CssValue) - DecimalOf(DesignValue)

BothParse ==
    /\ parseSpacingValue(DesignValue).kind = "number"
    /\ parseSpacingValue(CssValue).kind = "number"

\* C33: two matched lengths that both parse are a match when their pixel
\* values differ by at most 2px; otherwise they are a discrepancy, of
\* severity error when they differ by more than 8px and warning otherwise.
C33_LengthPair ==
    LengthPair /\ BothParse =>
        IF PairDifference <= 20 THEN IsMatch
        ELSE IF PairDifference > 80 THEN IsDiscrepancy("error")
             ELSE IsDiscrepancy("warning")

\* C33 for the pairs whose pixel values are whole numbers
C33_WholePixels ==
    LengthPair /\ BothParse /\ DecimalOf(DesignValue) % 10 = 0
               /\ DecimalOf(CssValue) % 10 = 0 =>
        IF PairDifference <= 20 THEN IsMatch
        ELSE IF PairDifference > 80 THEN IsDiscrepancy("error")
             ELSE IsDiscrepancy("warning")

(***************************************************************************)
(* Properties of the pipeline and the scheduler (Spec), continued          *)
(***************************************************************************)
\* processTaskV2 has returned or been caught, its finally block is next
Returning == run.pc = "finally"

AwaitingReview(taskId) ==
    \E i \in 1..Len(queue.tasks) :
        queue.tasks[i].id = taskId /\ queue.tasks[i].status = "awaiting_review"

\* C34: processTaskV2 never returns, through a return or through its
\* exception handler, with its task still in status awaiting_review: the
\* task is rejected, or completed and archived.
C34_NeverLeftAwaitingReview ==
    Returning => ~AwaitingReview(run.task)

\* C34 for the runs that return a result of their own
C34_ReturnedNotAwaitingReview ==
    Returning /\ run.result # Caught => ~AwaitingReview(run.task)

\* the tech lead has returned with success, runDeveloper is next, and the
\* tech-lead->developer file is readable and holds no task_assignment for
\* the task
NoInstructions ==
    /\ run.pc = "developer"
    /\ ~readThrows(mail, "toDeveloper")
    /\ find(mail["toDeveloper"].messages, "task_assignment", run.task) = NoMsg

\* C35: when, after a successful tech lead, the tech-lead->developer file
\* holds no task_assignment for the task, the developer agent is not
\* invoked, the developer->tech-lead file is left as it is, and the run
\* returns a failure at phase developer with the task still in_progress.
C35_NoInstructionsAborts ==
    [][NoInstructions =>
          /\ run'.pc = "finally"
          /\ ~run'.result.success
          /\ run'.result.phase = "developer"
          /\ run'.result.error # ""
          /\ hist'.invoked = hist.invoked
          /\ activeProcesses' = activeProcesses
          /\ mail' = mail
          /\ status' = status
          /\ getTask(queue', run.task).status = "in_progress"]_vars

\* a run has returned from the developer phase for want of instructions
C35_Witness ==
    /\ Returning
    /\ run.result = Fail("developer", "No instructions found from Team Lead")
    /\ ~readThrows(mail, "toDeveloper")
    /\ find(mail["toDeveloper"].messages, "task_assignment", run.task) = NoMsg
    /\ getTask(queue, run.task).status = "in_progress"

\* a task that the loop would take up is in the queue
WorkAtHand ==
    \E i \in 1..Len(queue.tasks) : queue.tasks[i].status \in {"in_progress", "pending"}

\* C36: the discovery agent is invoked in a cycle only when no task is
\* in_progress and none is pending at the start of the cycle; and with
\* continuous mode off, a discovery that leaves no task pending ends the
\* scheduler without a pipeline run.
C36_DiscoveryOnlyWhenIdle ==
    /\ [][sched.pc = "loop" /\ sched'.pc = "discovery" => ~WorkAtHand]_vars
    /\ [][sched.pc = "discovery" /\ sched'.pc # "stopped" /\ ~config.continuous
              /\ getPendingTasks(queue') = <<>>
            => sched'.pc = "finish" /\ run' = run /\ run.pc = "idle"]_vars
    /\ [][sched.pc = "finish" => sched'.pc = "stopped" /\ run' = run]_vars

\* a cycle ends and, with continuous mode off, the loop goes round again
GoesRoundAgain ==
    /\ sched.pc = "tasks" /\ sched'.pc = "loop"
    /\ ~config.continuous

\* C37: with continuous mode off and maxTasks >= 1 the scheduler loop ends
\* whatever the agents return.  A loop that ends under every outcome never
\* finishes a cycle in the state in which the cycle began and then goes
\* round again, for the same outcomes can then repeat for ever; from the
\* second cycle on a cycle begins, as it ends, with the message files cleared
\* by the run before.
C37_LoopTerminates ==
    [][GoesRoundAgain /\ sched.cycle >= 2 /\ config.maxTasks >= 1
          => queue # sched.before]_vars

\* C37 for the cycles in which every run returned success
C37_ProgressOnSuccess ==
    [][GoesRoundAgain /\ (\A i \in 1..Len(sched.ok) : sched.ok[i])
          => queue # sched.before]_vars

(***************************************************************************)
(* Properties of the Task Store (StoreSpec), continued                     *)
(***************************************************************************)
ActiveStatuses == {"pending", "in_progress", "awaiting_review", "rejected"}

\* C38: after any sequence of Task Store operations every task of the
\* active list has a status among pending, in_progress, awaiting_review and
\* rejected, every task of the completed list has status completed, and so
\* pending + inProgress + awaitingReview + rejected + completed = total.
C38_StatsAddUp ==
    /\ \A i \in 1..Len(queue.tasks) : queue.tasks[i].status \in ActiveStatuses
    /\ \A i \in 1..Len(queue.completed) : queue.completed[i].status = "completed"
    /\ LET stats == getQueueStats(queue)
       IN stats.pending + stats.inProgress + stats.awaitingReview + stats.rejected
             + stats.completed = stats.total

\* every task of the completed list has status completed
C38_CompletedListIsCompleted ==
    \A i \in 1..Len(queue.completed) : queue.completed[i].status = "completed"

\* a pipeline run has ended and the next one has not begun
RunEnded == run.pc = "returned"

\* C39: when no pipeline run is in flight the status file shows the
\* developer as idle and developer.currentTask as null: the developer phase
\* that recorded a task id as the developer's current task clears it again
\* when the phase ends.
C39_DeveloperTaskCleared ==
    RunEnded => status.developer = "idle" /\ status.developerTask = NoTask

\* the step that ends the developer phase leaves the developer idle
C39_DeveloperIdleAfterPhase ==
    [][run.pc = DonePc("developer") /\ run'.pc # run.pc => status'.developer = "idle"]_vars

====
